---------------------------- MODULE Spec2Model ----------------------------
(***************************************************************************)
(* Model of the guild automation bot: the Redis Store, the Discord guild,  *)
(* the reconciliation sweep of discord_sync.rs and the chat command        *)
(* handlers of discord_bot.rs / discord_bot_commands.rs.                   *)
(*                                                                         *)
(* An Option<T> of the source is a set with at most one element: None is   *)
(* {} and Some(x) is {x}.  Snowflake ids are small naturals; ids handed    *)
(* out by Discord are drawn from the counter next_id, so they are unique   *)
(* across channels and roles.                                              *)
(***************************************************************************)
EXTENDS Naturals, Integers, FiniteSets, Sequences, TLC

\* ------------------------------------------------------------------ bounds
\* Discord user ids and Meetup user ids are 1..MaxUser.
MaxUser == 2
\* The number of ids Discord hands out (create_channel / create_role stop there).
MaxFresh == 6
\* The wall clock runs from 0 to MaxTime.
MaxTime == 3
\* The number of sweeps a sweep thread runs.
MaxSweeps == 1
\* The capacity of the executor's queue, and the most tasks waiting in the scheduler
MaxTasks == 2
\* The longest event name tried
MaxLen == 4

\* ------------------------------------------------- program constants (ids)
ORGANIZER_ID == 1
GAME_MASTER_ID == 2
GUILD_ID == 3
ONE_SHOT_CATEGORY_ID == 4
CAMPAIGN_CATEGORY_ID == 5
\* The bot's own user id, fetched at start-up (get_current_application_info).
bot_id == 6
\* Ids of the resources that exist before the model starts.
InitChannel == bot_id + 1
InitRole == InitChannel + 1
InitHostRole == InitRole + 1
FirstId == InitHostRole + 1
MaxId == FirstId + MaxFresh - 1
\* sync_channel / sync_role: let max_retries = 1
max_retries == 1

None == {}
Some(x) == {x}
\* The value of a Some(x)
Unwrap(o) == CHOOSE x \in o : TRUE

DiscordUsers == 1..MaxUser
\* Meetup ids the commands can name; the last one has no Meetup profile.
MeetupIds == 1..(MaxUser + 1)
MeetupProfiles == 1..MaxUser
Ids == InitChannel..MaxId
Series == {"S1", "S2"}
Events == {"E1", "E2", "E3"}
Procs == {1, 2}
Handlers == {1, 2}
\* The thread that runs the sweeps and the thread that serves the commands
Sweepers == {1}
Admins == {1}

VARIABLES
    \* ---- the Store (Redis keys)
    event_series,                  \* event_series
    series_meetup_events,          \* event_series:{s}:meetup_events
    series_type,                   \* event_series:{s}:type
    meetup_event,                  \* meetup_event:{e} (hash: time, name, link)
    meetup_event_meetup_users,     \* meetup_event:{e}:meetup_users
    meetup_event_meetup_hosts,     \* meetup_event:{e}:meetup_hosts
    event_series_discord_channel,  \* event_series:{s}:discord_channel
    discord_channel_event_series,  \* discord_channel:{c}:event_series
    discord_channels,              \* discord_channels
    discord_channel_discord_role,  \* discord_channel:{c}:discord_role / :discord_host_role
    discord_role_discord_channel,  \* discord_role:{r}:discord_channel / discord_host_role:{r}:...
    discord_roles,                 \* discord_roles / discord_host_roles
    orphaned_discord_channels,     \* orphaned_discord_channels
    orphaned_discord_roles,        \* orphaned_discord_roles
    discord_user_meetup_user,      \* discord_user:{d}:meetup_user
    meetup_user_discord_user,      \* meetup_user:{m}:discord_user
    meetup_users,                  \* meetup_users
    discord_users,                 \* discord_users
    removed_users,                 \* discord_channel:{c}:removed_users
    removed_hosts,                 \* discord_channel:{c}:removed_hosts
    expiration_time,               \* discord_channel:{c}:expiration_time
    deletion_time,                 \* discord_channel:{c}:deletion_time
    \* ---- the Discord guild
    guild_channels,                \* ids of the channels that exist
    guild_roles,                   \* ids of the roles that exist
    cache_roles,                   \* role ids in the client's guild cache
    next_id,                       \* the next id Discord hands out
    resource_name,                 \* name of each created channel / role
    member_roles,                  \* roles of each guild member
    permission_overwrites,         \* per channel: set of overwrites
    channel_topic,                 \* per channel: Option<topic>
    channel_category,              \* per channel: Option<category id>
    \* ---- the process
    now,                           \* chrono::Utc::now()
    proc,                          \* per sweep thread: position and locals
    handler,                       \* per handler thread: position, locals, last reply
    before_link,                   \* history: the Store as a link found it
    stopped,                       \* "systemctl stop bot" has been run
    future_spawner,                \* number of tasks in the executor's queue
    task_scheduler                 \* tasks handed to the scheduler, not yet run

store_vars == <<event_series, series_meetup_events, series_type, meetup_event,
                meetup_event_meetup_users, meetup_event_meetup_hosts,
                event_series_discord_channel, discord_channel_event_series,
                discord_channels, discord_channel_discord_role,
                discord_role_discord_channel, discord_roles,
                orphaned_discord_channels, orphaned_discord_roles,
                discord_user_meetup_user, meetup_user_discord_user,
                meetup_users, discord_users, removed_users, removed_hosts,
                expiration_time, deletion_time>>
event_vars == <<event_series, series_meetup_events, series_type, meetup_event,
                meetup_event_meetup_users, meetup_event_meetup_hosts>>
channel_vars == <<event_series_discord_channel, discord_channel_event_series,
                  discord_channels, orphaned_discord_channels>>
role_vars == <<discord_channel_discord_role, discord_role_discord_channel,
               discord_roles, orphaned_discord_roles>>
link_vars == <<discord_user_meetup_user, meetup_user_discord_user,
               meetup_users, discord_users>>
admin_vars == <<removed_users, removed_hosts, expiration_time, deletion_time>>
guild_vars == <<guild_channels, guild_roles, cache_roles, next_id, resource_name,
                permission_overwrites, channel_topic, channel_category>>
task_vars == <<stopped, future_spawner, task_scheduler>>
vars == <<store_vars, guild_vars, member_roles, now, proc, handler, before_link, task_vars>>


\* DateTime::to_rfc3339: the string stored under a time key
to_rfc3339(t) == [rfc3339 |-> TRUE, time |-> t]

\* A string under a time key that parse_from_rfc3339 rejects
NotATime == [rfc3339 |-> FALSE, time |-> 0]

\* chrono::DateTime::parse_from_rfc3339, after transpose(): Ok(Option) or Err
parse_from_rfc3339(stored) ==
    IF stored = None THEN [err |-> FALSE, time |-> None]
    ELSE IF Unwrap(stored).rfc3339 THEN [err |-> FALSE, time |-> Some(Unwrap(stored).time)]
    ELSE [err |-> TRUE, time |-> None]

\* ------------------------------------------------------------------ Init
\* One upcoming event per series: S1 is a campaign, S2 a one-shot.  The second
\* event of S1 has a time that is not RFC 3339.
InitEvents ==
    /\ series_meetup_events = [s \in Series |-> IF s = "S1" THEN {"E1", "E2"} ELSE {"E3"}]
    /\ series_type = [s \in Series |-> IF s = "S1" THEN Some("campaign") ELSE Some("adventure")]
    /\ meetup_event =
         [e \in Events |->
            IF e = "E1"
            THEN [time |-> to_rfc3339(2), name |-> <<"a", "b", " ", "[">>, link |-> "L1"]
            ELSE IF e = "E2" THEN [time |-> NotATime, name |-> <<"a", "b">>, link |-> "L2"]
            ELSE [time |-> to_rfc3339(1), name |-> <<" ", "c", "d", "(">>, link |-> "L3"]]
    /\ meetup_event_meetup_users = [e \in Events |-> IF e = "E3" THEN {2} ELSE {1, 2}]
    /\ meetup_event_meetup_hosts = [e \in Events |-> {1}]

InitChannelStoreEmpty ==
    /\ event_series_discord_channel = [s \in Series |-> None]
    /\ discord_channel_event_series = [c \in Ids |-> None]
    /\ discord_channels = {}
    /\ orphaned_discord_channels = {}

InitRoleStoreEmpty ==
    /\ discord_channel_discord_role = [h \in BOOLEAN |-> [c \in Ids |-> None]]
    /\ discord_role_discord_channel = [h \in BOOLEAN |-> [r \in Ids |-> None]]
    /\ discord_roles = [h \in BOOLEAN |-> {}]
    /\ orphaned_discord_roles = {}

InitLinkStoreEmpty ==
    /\ discord_user_meetup_user = [d \in DiscordUsers |-> None]
    /\ meetup_user_discord_user = [m \in MeetupIds |-> None]
    /\ meetup_users = {}
    /\ discord_users = {}

InitAdminStoreEmpty ==
    /\ removed_users = [c \in Ids |-> {}]
    /\ removed_hosts = [c \in Ids |-> {}]
    /\ expiration_time = [c \in Ids |-> None]
    /\ deletion_time = [c \in Ids |-> None]

InitGuildEmpty ==
    /\ guild_channels = {}
    /\ guild_roles = {}
    /\ cache_roles = {}
    /\ next_id = FirstId
    /\ resource_name = [i \in Ids |-> <<>>]
    /\ permission_overwrites = [c \in Ids |-> {}]
    /\ channel_topic = [c \in Ids |-> None]
    /\ channel_category = [c \in Ids |-> None]

\* Member 1 is an organiser, member 2 is not.
InitMembers == member_roles = [u \in DiscordUsers |-> IF u = 1 THEN {ORGANIZER_ID} ELSE {}]

ProcIdle == [pc |-> "idle", series_id |-> "", series_name |-> <<>>, result |-> "",
             current_num_try |-> 0, channel |-> None, role |-> None, temp |-> None,
             tx |-> None, tx_err |-> FALSE, is_host_role |-> FALSE,
             channel_id |-> None, channel_role_id |-> None,
             channel_host_role_id |-> None, next_event |-> None,
             discord_user_ids |-> {}, ignore_discord_user_ids |-> {},
             removed_users_read |-> {},
             event_series |-> {}, some_failed |-> FALSE, sweep_result |-> "",
             num_sweeps |-> 0,
             \* history of the sweep: the series list as read, the series whose
             \* sync was called, the series whose sync returned an error
             series_read |-> None, attempted |-> {}, failed |-> {}]
HandlerIdle == [pc |-> "idle", user_id |-> 0, meetup_id |-> 0, reply |-> "",
                channel_id |-> 0, discord_id |-> 0, as_host |-> FALSE,
                new_deletion_time |-> 0, current_deletion_time |-> None]
NoLink == [phase |-> "none", d |-> 0, e |-> 0, store |-> <<>>]

\* The bot runs; no task is queued or scheduled.
InitTasks ==
    /\ stopped = FALSE
    /\ future_spawner = 0
    /\ task_scheduler = <<>>

InitThreads ==
    /\ proc = [p \in Procs |-> ProcIdle]
    /\ handler = [h \in Handlers |-> HandlerIdle]
    /\ before_link = NoLink
    /\ InitTasks

\* ------------------------------------------------------- identity linking
\* A handler thread ends its command with a message to the chat.
Reply(h, msg) == [handler EXCEPT ![h] = [HandlerIdle EXCEPT !.reply = msg]]

\* What user.has_role(..).unwrap_or(false) can give: a failed lookup counts as "no".
has_role(user, role) == {FALSE, (role \in member_roles[user])}

\* is_organizer letting every author pass
is_organizer_anyone(author) == {TRUE}

\* msg.author.has_role(ctx, GUILD_ID, ORGANIZER_ID).unwrap_or(false)
is_organizer(author) == has_role(author, ORGANIZER_ID)

\* The command "link meetup <@discord_id> meetup_id" sent by author: the organiser
\* check of the dispatcher, then the first read of link_meetup_organizer.
link_meetup_organizer(h, author, discord_id, meetup_id) ==
    /\ \E redis_ok \in BOOLEAN, organizer \in is_organizer(author) :
         LET linked_meetup_id == discord_user_meetup_user[discord_id]
         IN  handler' =
               IF ~organizer THEN Reply(h, "NOT_AN_ORGANISER")
               ELSE IF ~redis_ok THEN Reply(h, "UNSPECIFIED_ERROR")
               ELSE IF linked_meetup_id = Some(meetup_id) THEN Reply(h, "already linked")
               ELSE IF linked_meetup_id # None
                    THEN Reply(h, "already linked to a different Meetup account")
               ELSE [handler EXCEPT ![h] = [HandlerIdle EXCEPT !.pc = "link_check_m2d",
                                                               !.user_id = discord_id,
                                                               !.meetup_id = meetup_id]]
    /\ UNCHANGED <<store_vars, guild_vars, member_roles, now, proc, before_link, task_vars>>

\* A handler thread picks up a message "link meetup <@discord_id> meetup_id".
message_link_meetup_organizer(h) ==
    /\ handler[h].pc = "idle"
    /\ \E author \in DiscordUsers, discord_id \in DiscordUsers, meetup_id \in MeetupIds :
         link_meetup_organizer(h, author, discord_id, meetup_id)

\* Check if this meetup id is already linked
link_check_m2d(h) ==
    /\ handler[h].pc = "link_check_m2d"
    /\ \E redis_ok \in BOOLEAN :
         LET linked_discord_id == meetup_user_discord_user[handler[h].meetup_id]
         IN  handler' =
               IF ~redis_ok THEN Reply(h, "UNSPECIFIED_ERROR")
               ELSE IF linked_discord_id # None
                    THEN Reply(h, "This Meetup account is already linked")
               ELSE [handler EXCEPT ![h].pc = "link_get_member_profile"]
    /\ UNCHANGED <<store_vars, guild_vars, member_roles, now, proc, before_link, task_vars>>

\* Test whether the specified Meetup user actually exists.
link_get_member_profile(h) ==
    /\ handler[h].pc = "link_get_member_profile"
    /\ \E meetup_ok \in BOOLEAN :
         handler' =
           IF ~meetup_ok THEN Reply(h, "UNSPECIFIED_ERROR")
           ELSE IF handler[h].meetup_id \notin MeetupProfiles
                THEN Reply(h, "this Meetup profile does not exist")
           ELSE [handler EXCEPT ![h].pc = "link_transaction"]
    /\ UNCHANGED <<store_vars, guild_vars, member_roles, now, proc, before_link, task_vars>>

\* link_abort testing only the chat user's key
link_abort_d2m_only(linked_meetup_id, linked_discord_id) == linked_meetup_id # None

\* link_abort testing only the Meetup user's key
link_abort_m2d_only(linked_meetup_id, linked_discord_id) == linked_discord_id # None

\* link_abort going on unless both keys are taken
link_abort_if_both(linked_meetup_id, linked_discord_id) ==
    linked_meetup_id # None /\ linked_discord_id # None

\* "The meetup id was linked in the meantime, abort"
link_abort(linked_meetup_id, linked_discord_id) ==
    linked_meetup_id # None \/ linked_discord_id # None

\* redis::transaction watching both keys: set both directions, or abort.
link_transaction(h) ==
    /\ handler[h].pc = "link_transaction"
    /\ LET user_id == handler[h].user_id
           meetup_id == handler[h].meetup_id
           linked_meetup_id == discord_user_meetup_user[user_id]
           linked_discord_id == meetup_user_discord_user[meetup_id]
       IN  \E redis_ok \in BOOLEAN :
             IF ~redis_ok
             THEN /\ handler' = Reply(h, "UNSPECIFIED_ERROR")
                  /\ UNCHANGED <<link_vars, before_link>>
             ELSE IF link_abort(linked_meetup_id, linked_discord_id)
             THEN /\ handler' = Reply(h, "Could not assign meetup id (timing error)")
                  /\ UNCHANGED <<link_vars, before_link>>
             ELSE /\ meetup_users' = meetup_users \cup {meetup_id}
                  /\ discord_users' = discord_users \cup {user_id}
                  /\ discord_user_meetup_user' =
                       [discord_user_meetup_user EXCEPT ![user_id] = Some(meetup_id)]
                  /\ meetup_user_discord_user' =
                       [meetup_user_discord_user EXCEPT ![meetup_id] = Some(user_id)]
                  /\ handler' = Reply(h, "Linked Meetup account")
                  /\ before_link' = [phase |-> "linked", d |-> user_id, e |-> meetup_id,
                                     store |-> link_vars]
    /\ UNCHANGED <<event_vars, channel_vars, role_vars, admin_vars, guild_vars,
                   member_roles, now, proc, task_vars>>

\* unlink_del_m2d leaving the Meetup user's key in place
unlink_del_m2d_missing(meetup_id) == meetup_user_discord_user

\* unlink_del_m2d deleting the key of every Meetup user
unlink_del_m2d_all(meetup_id) == [m \in MeetupIds |-> None]

\* redis_connection.del(&[&redis_key_d2m, &redis_key_m2d]): the second key
unlink_del_m2d(meetup_id) == [meetup_user_discord_user EXCEPT ![meetup_id] = None]

\* The commands "unlink meetup" (user_id is the author) and
\* "unlink meetup <@mention>" (user_id is the mentioned user), as the dispatcher
\* passes them to unlink_meetup; the handler holds the connection's lock throughout.
message_unlink_meetup(h, author, mention, is_organizer_command) ==
    /\ \E redis_ok \in BOOLEAN :
         LET user_id == IF is_organizer_command THEN mention ELSE author
             linked_meetup_id == discord_user_meetup_user[user_id]
         IN  IF ~redis_ok
             THEN /\ handler' = Reply(h, "UNSPECIFIED_ERROR")
                  /\ UNCHANGED <<link_vars, before_link>>
             ELSE IF linked_meetup_id = None
             THEN /\ handler' = Reply(h, "MEETUP_UNLINK_NOT_LINKED")
                  /\ UNCHANGED <<link_vars, before_link>>
             ELSE /\ discord_user_meetup_user' =
                       [discord_user_meetup_user EXCEPT ![user_id] = None]
                  /\ meetup_user_discord_user' = unlink_del_m2d(Unwrap(linked_meetup_id))
                  /\ UNCHANGED <<meetup_users, discord_users>>
                  /\ handler' = Reply(h, "MEETUP_UNLINK_SUCCESS")
                  /\ before_link' =
                       IF before_link.phase = "linked" /\ before_link.d = user_id
                       THEN [before_link EXCEPT !.phase = "unlinked"]
                       ELSE NoLink
    /\ UNCHANGED <<event_vars, channel_vars, role_vars, admin_vars, guild_vars,
                   member_roles, now, proc, task_vars>>

\* A handler thread picks up one of the two unlink messages.
unlink_meetup(h) ==
    /\ handler[h].pc = "idle"
    /\ \E author \in DiscordUsers, mention \in DiscordUsers,
          is_organizer_command \in BOOLEAN :
         message_unlink_meetup(h, author, mention, is_organizer_command)

InitLink ==
    /\ event_series = Series
    /\ InitEvents /\ InitChannelStoreEmpty /\ InitRoleStoreEmpty /\ InitLinkStoreEmpty
    /\ InitAdminStoreEmpty /\ InitGuildEmpty /\ InitMembers /\ InitThreads
    /\ now = 0

NextLink ==
    \E h \in Handlers :
        \/ message_link_meetup_organizer(h)
        \/ link_check_m2d(h)
        \/ link_get_member_profile(h)
        \/ link_transaction(h)
        \/ unlink_meetup(h)

\* The identity linker: two handler threads serving link and unlink commands.
SpecLink == InitLink /\ [][NextLink]_vars

\* ------------------------------------------------- the organiser commands
\* The command "stop" sent by author: sudo systemctl stop bot.  The handler sends
\* no message; a command that cannot be started panics the handler thread.
stop_organizer(h, author) ==
    /\ \E organizer \in is_organizer(author), output_ok \in BOOLEAN :
         IF ~organizer
         THEN /\ handler' = Reply(h, "NOT_AN_ORGANISER")
              /\ UNCHANGED stopped
         ELSE /\ handler' = Reply(h, "")
              /\ stopped' = (stopped \/ output_ok)
    /\ UNCHANGED <<store_vars, guild_vars, member_roles, now, proc, before_link,
                   future_spawner, task_scheduler>>

\* The command "sync meetup" sent by author: future_spawner.try_send(sync_task),
\* which fails when the queue is full or disconnected
sync_meetup_mention(h, author) ==
    /\ \E organizer \in is_organizer(author), connected \in BOOLEAN :
         IF ~organizer
         THEN /\ handler' = Reply(h, "NOT_AN_ORGANISER")
              /\ UNCHANGED future_spawner
         ELSE IF connected /\ future_spawner < MaxTasks
         THEN /\ future_spawner' = future_spawner + 1
              /\ handler' = Reply(h, "Started asynchronous Meetup synchronization task")
         ELSE /\ handler' = Reply(h, "Could not submit asynchronous Meetup synchronization task")
              /\ UNCHANGED future_spawner
    /\ UNCHANGED <<store_vars, guild_vars, member_roles, now, proc, before_link,
                   stopped, task_scheduler>>

\* A task of the scheduler: the closure `name` built with the flag `recurring`
\* and due at `time`; `running` while the scheduler has called it
Task(name, recurring, time) ==
    [name |-> name, recurring |-> recurring, time |-> time, running |-> FALSE]

\* create_sync_discord_task(.., /*recurring*/ false) and the like
OneShot(name, time) == Task(name, FALSE, time)

\* task_scheduler.lock().add_task_datetime(Utc::now(), task) and the message after it
add_task_datetime(h, author, task, started) ==
    /\ \E organizer \in is_organizer(author) :
         IF ~organizer
         THEN /\ handler' = Reply(h, "NOT_AN_ORGANISER")
              /\ UNCHANGED task_scheduler
         ELSE /\ Len(task_scheduler) < MaxTasks
              /\ task_scheduler' = Append(task_scheduler, OneShot(task, now))
              /\ handler' = Reply(h, started)
    /\ UNCHANGED <<store_vars, guild_vars, member_roles, now, proc, before_link,
                   stopped, future_spawner>>

\* The command "sync discord" sent by author: a one-shot sweep is scheduled
sync_discord_mention(h, author) ==
    add_task_datetime(h, author, "create_sync_discord_task",
                      "Started Discord synchronization task")

\* The command "remind expiration" sent by author: a one-shot reminder run is scheduled
send_expiration_reminder_organizer_mention(h, author) ==
    add_task_datetime(h, author, "create_end_of_game_task",
                      "Started expiration reminder task")

\* A handler thread picks up one of the organiser commands without arguments.
message_stop_organizer(h) ==
    handler[h].pc = "idle" /\ \E author \in DiscordUsers : stop_organizer(h, author)

message_sync_meetup_mention(h) ==
    handler[h].pc = "idle" /\ \E author \in DiscordUsers : sync_meetup_mention(h, author)

message_sync_discord_mention(h) ==
    handler[h].pc = "idle" /\ \E author \in DiscordUsers : sync_discord_mention(h, author)

message_send_expiration_reminder(h) ==
    /\ handler[h].pc = "idle"
    /\ \E author \in DiscordUsers : send_expiration_reminder_organizer_mention(h, author)

\* The scheduler runs a one-shot task and drops it (DateResult::Done).
run_task ==
    /\ task_scheduler # <<>>
    /\ ~Head(task_scheduler).recurring
    /\ task_scheduler' = Tail(task_scheduler)
    /\ UNCHANGED <<store_vars, guild_vars, member_roles, now, proc, handler, before_link,
                   stopped, future_spawner>>

NextOrganizer ==
    \/ run_task
    \/ \E h \in Admins :
        \/ message_stop_organizer(h)
        \/ message_sync_meetup_mention(h)
        \/ message_sync_discord_mention(h)
        \/ message_send_expiration_reminder(h)
        \/ message_link_meetup_organizer(h)
        \/ link_check_m2d(h)
        \/ link_get_member_profile(h)
        \/ link_transaction(h)

\* One handler thread serving the organiser commands.
SpecOrganizer == InitLink /\ [][NextOrganizer]_vars

\* Two messages "link meetup <@d> e" for the same Discord user d and different
\* Meetup ids have been received, one by each handler thread; nobody is linked.
InitRace ==
    /\ event_series = Series
    /\ InitEvents /\ InitChannelStoreEmpty /\ InitRoleStoreEmpty /\ InitLinkStoreEmpty
    /\ InitAdminStoreEmpty /\ InitGuildEmpty /\ InitMembers
    /\ now = 0
    /\ proc = [p \in Procs |-> ProcIdle]
    /\ before_link = NoLink
    /\ InitTasks
    /\ \E d \in DiscordUsers, e \in [Handlers -> MeetupIds] :
         /\ \A h1, h2 \in Handlers : h1 # h2 => e[h1] # e[h2]
         /\ handler = [h \in Handlers |-> [HandlerIdle EXCEPT !.user_id = d,
                                                               !.meetup_id = e[h]]]

\* The handler thread starts to serve the message it received.
message_received(h) ==
    /\ handler[h].pc = "idle"
    /\ handler[h].user_id # 0
    /\ \E author \in DiscordUsers :
         link_meetup_organizer(h, author, handler[h].user_id, handler[h].meetup_id)

NextRace ==
    \E h \in Handlers :
        \/ message_received(h)
        \/ link_check_m2d(h)
        \/ link_get_member_profile(h)
        \/ link_transaction(h)

\* Two link commands for the same Discord user served concurrently.
SpecRace == InitRace /\ [][NextRace]_vars

\* --------------------------------------------------- the channel reconciler
\* sync_event_series returns: the ids it obtained stay readable for the claims.
Return(p, result) ==
    [proc EXCEPT ![p] = [ProcIdle EXCEPT !.pc = "series_done",
                                         !.series_id = proc[p].series_id,
                                         !.channel_id = proc[p].channel_id,
                                         !.channel_role_id = proc[p].channel_role_id,
                                         !.channel_host_role_id = proc[p].channel_host_role_id,
                                         !.event_series = proc[p].event_series,
                                         !.num_sweeps = proc[p].num_sweeps,
                                         !.some_failed = proc[p].some_failed,
                                         !.series_read = proc[p].series_read,
                                         !.attempted = proc[p].attempted,
                                         !.failed = proc[p].failed,
                                         !.result = result]]

\* A `?` that propagates an error out of sync_event_series.
Fail(p) == Return(p, "Err")

\* The overwrites a new channel is created with.
initial_permission_overwrites ==
    { [kind |-> "Role", id |-> GUILD_ID, allow |-> {}, deny |-> {"READ_MESSAGES"}],
      [kind |-> "Member", id |-> bot_id, allow |-> {"READ_MESSAGES"}, deny |-> {}] }

\* sync_channel without the test of current_num_try
sync_channel_unbounded(p) ==
    /\ proc[p].pc = "sync_channel"
    /\ proc' = [proc EXCEPT ![p].current_num_try = @ + 1,
                            ![p].pc = "sync_channel_impl"]
    /\ UNCHANGED <<store_vars, guild_vars, member_roles, now, handler, before_link, task_vars>>

\* sync_channel: the head of the retry loop
sync_channel(p) ==
    /\ proc[p].pc = "sync_channel"
    /\ proc' = IF proc[p].current_num_try > max_retries
               THEN Fail(p)
               ELSE [proc EXCEPT ![p].current_num_try = @ + 1,
                                 ![p].pc = "sync_channel_impl"]
    /\ UNCHANGED <<store_vars, guild_vars, member_roles, now, handler, before_link, task_vars>>

\* sync_channel_impl creating a channel whether or not one is bound
sync_channel_impl_creates(p) ==
    /\ proc[p].pc = "sync_channel_impl"
    /\ \E redis_ok \in BOOLEAN :
         proc' = IF ~redis_ok THEN Fail(p)
                 ELSE [proc EXCEPT ![p].pc = "create_channel"]
    /\ UNCHANGED <<store_vars, guild_vars, member_roles, now, handler, before_link, task_vars>>

\* sync_channel_impl: check if the channel already exists
sync_channel_impl(p) ==
    /\ proc[p].pc = "sync_channel_impl"
    /\ \E redis_ok \in BOOLEAN :
         LET channel == event_series_discord_channel[proc[p].series_id]
         IN  proc' = IF ~redis_ok THEN Fail(p)
                     ELSE IF channel # None
                     THEN [proc EXCEPT ![p].channel = channel,
                                       ![p].pc = "sync_channel_exists"]
                     ELSE [proc EXCEPT ![p].pc = "create_channel"]
    /\ UNCHANGED <<store_vars, guild_vars, member_roles, now, handler, before_link, task_vars>>

\* GUILD_ID.create_channel: the temporary channel
create_channel(p) ==
    /\ proc[p].pc = "create_channel"
    /\ next_id <= MaxId
    /\ \E http_ok \in BOOLEAN :
         IF ~http_ok
         THEN /\ proc' = Fail(p)
              /\ UNCHANGED <<guild_channels, next_id, resource_name, permission_overwrites>>
         ELSE /\ guild_channels' = guild_channels \cup {next_id}
              /\ resource_name' = [resource_name EXCEPT ![next_id] = proc[p].series_name]
              /\ permission_overwrites' =
                   [permission_overwrites EXCEPT ![next_id] = initial_permission_overwrites]
              /\ next_id' = next_id + 1
              /\ proc' = [proc EXCEPT ![p].temp = Some(next_id),
                                      ![p].pc = "bind_channel"]
    /\ UNCHANGED <<store_vars, guild_roles, cache_roles, channel_topic, channel_category,
                   member_roles, now, handler, before_link, task_vars>>

\* bind_channel_store without the sadd
bind_channel_store_no_sadd(series_id, temp_channel) ==
    /\ UNCHANGED discord_channels
    /\ event_series_discord_channel' =
         [event_series_discord_channel EXCEPT ![series_id] = Some(temp_channel)]
    /\ discord_channel_event_series' =
         [discord_channel_event_series EXCEPT ![temp_channel] = Some(series_id)]

\* "Persist the new channel to Redis"
bind_channel_store(series_id, temp_channel) ==
    /\ discord_channels' = discord_channels \cup {temp_channel}
    /\ event_series_discord_channel' =
         [event_series_discord_channel EXCEPT ![series_id] = Some(temp_channel)]
    /\ discord_channel_event_series' =
         [discord_channel_event_series EXCEPT ![temp_channel] = Some(series_id)]

\* is_some taking every slot for empty
is_some_never(slot) == FALSE

\* "if channel.is_some()": some id already exists in Redis (the same test
\* guards the bind of a role)
is_some(slot) == slot # None

\* delete_temp deleting the temporary resource in every case
delete_temp_always(tx_err, tx, temp) == TRUE

\* "In case the Redis transaction failed or the channel ID returned by Redis
\* doesn't match the newly created channel, delete it"
delete_temp(tx_err, tx, temp) == tx_err \/ tx # temp

\* What the transaction returned: the id now in the series' channel key
channel_bound(p, tx) ==
    IF delete_temp(FALSE, tx, proc[p].temp)
    THEN [proc EXCEPT ![p].tx = tx, ![p].pc = "delete_temp_channel"]
    ELSE [proc EXCEPT ![p].channel = tx, ![p].temp = None,
                      ![p].pc = "sync_channel_exists"]

\* The transaction of sync_channel_impl, watching the series' channel key
bind_channel(p) ==
    /\ proc[p].pc = "bind_channel"
    /\ LET series_id == proc[p].series_id
           channel == event_series_discord_channel[series_id]
       IN  \E redis_ok \in BOOLEAN :
             IF ~redis_ok
             THEN /\ proc' = [proc EXCEPT ![p].tx_err = TRUE,
                                          ![p].pc = "delete_temp_channel"]
                  /\ UNCHANGED <<event_series_discord_channel,
                                 discord_channel_event_series, discord_channels>>
             ELSE IF is_some(channel)
             THEN /\ proc' = channel_bound(p, channel)
                  /\ UNCHANGED <<event_series_discord_channel,
                                 discord_channel_event_series, discord_channels>>
             ELSE /\ bind_channel_store(series_id, Unwrap(proc[p].temp))
                  /\ proc' = channel_bound(p, event_series_discord_channel'[series_id])
    /\ UNCHANGED <<event_vars, orphaned_discord_channels, role_vars, link_vars, admin_vars,
                   guild_vars, member_roles, now, handler, before_link, task_vars>>

\* sync_channel_impl returns what the transaction returned
channel_impl_return(p) ==
    IF proc[p].tx_err THEN Fail(p)
    ELSE [proc EXCEPT ![p].channel = proc[p].tx, ![p].temp = None, ![p].tx = None,
                      ![p].pc = "sync_channel_exists"]

\* delete_temp_channel returning at once when the deletion fails
delete_temp_channel_unrecorded(p) ==
    /\ proc[p].pc = "delete_temp_channel"
    /\ \E http_ok \in BOOLEAN :
         /\ guild_channels' = IF http_ok THEN guild_channels \ proc[p].temp
                              ELSE guild_channels
         /\ proc' = channel_impl_return(p)
    /\ UNCHANGED <<store_vars, guild_roles, cache_roles, next_id, resource_name,
                   permission_overwrites, channel_topic, channel_category,
                   member_roles, now, handler, before_link, task_vars>>

\* delete_channel(temp_channel)
delete_temp_channel(p) ==
    /\ proc[p].pc = "delete_temp_channel"
    /\ \E http_ok \in BOOLEAN :
         IF http_ok
         THEN /\ guild_channels' = guild_channels \ proc[p].temp
              /\ proc' = channel_impl_return(p)
         ELSE /\ proc' = [proc EXCEPT ![p].pc = "orphan_channel"]
              /\ UNCHANGED guild_channels
    /\ UNCHANGED <<store_vars, guild_roles, cache_roles, next_id, resource_name,
                   permission_overwrites, channel_topic, channel_category,
                   member_roles, now, handler, before_link, task_vars>>

\* sadd("orphaned_discord_channels", temp_channel); its failure is only logged
orphan_channel(p) ==
    /\ proc[p].pc = "orphan_channel"
    /\ \E redis_ok \in BOOLEAN :
         orphaned_discord_channels' =
            IF redis_ok THEN orphaned_discord_channels \cup proc[p].temp
            ELSE orphaned_discord_channels
    /\ proc' = channel_impl_return(p)
    /\ UNCHANGED <<event_vars, event_series_discord_channel, discord_channel_event_series,
                   discord_channels, role_vars, link_vars, admin_vars,
                   guild_vars, member_roles, now, handler, before_link, task_vars>>

\* "Make sure that the channel ID that was returned actually exists on Discord"
sync_channel_exists(p) ==
    /\ proc[p].pc = "sync_channel_exists"
    /\ \E http_ok \in BOOLEAN :
         LET channel_exists == proc[p].channel \subseteq guild_channels
         IN  proc' = IF ~http_ok THEN Fail(p)
                     ELSE IF channel_exists
                     THEN [proc EXCEPT ![p].channel_id = proc[p].channel,
                                       ![p].channel = None,
                                       ![p].current_num_try = 0,
                                       ![p].is_host_role = FALSE,
                                       ![p].pc = "sync_role"]
                     ELSE [proc EXCEPT ![p].pc = "repair_channel"]
    /\ UNCHANGED <<store_vars, guild_vars, member_roles, now, handler, before_link, task_vars>>

\* repair_channel_store leaving the reverse key in place
repair_channel_store_keeps_reverse(series_id, channel) ==
    /\ event_series_discord_channel' =
         [event_series_discord_channel EXCEPT ![series_id] = None]
    /\ UNCHANGED discord_channel_event_series
    /\ discord_channels' = discord_channels \ {channel}

\* repair_channel_store leaving the id in discord_channels
repair_channel_store_no_srem(series_id, channel) ==
    /\ event_series_discord_channel' =
         [event_series_discord_channel EXCEPT ![series_id] = None]
    /\ discord_channel_event_series' =
         [discord_channel_event_series EXCEPT ![channel] = None]
    /\ UNCHANGED discord_channels

\* "Remove the broken channel from Redis"
repair_channel_store(series_id, channel) ==
    /\ event_series_discord_channel' =
         [event_series_discord_channel EXCEPT ![series_id] = None]
    /\ discord_channel_event_series' =
         [discord_channel_event_series EXCEPT ![channel] = None]
    /\ discord_channels' = discord_channels \ {channel}

\* still_current satisfied with any id in the slot
still_current_if_bound(current, observed) == current # None

\* still_current without the comparison: the repair deletes whatever is bound
still_current_unchecked(current, observed) == TRUE

\* "if current_channel == Some(channel.0)": the binding is still the one that
\* was found missing (the same test guards the role repair)
still_current(current, observed) == current = observed

\* The repair deleting the missing channel's role keys along with its binding
repair_channel_with_roles(p) ==
    /\ proc[p].pc = "repair_channel"
    /\ LET series_id == proc[p].series_id
           current_channel == event_series_discord_channel[series_id]
       IN  \E redis_ok \in BOOLEAN :
             IF ~redis_ok
             THEN /\ proc' = Fail(p)
                  /\ UNCHANGED <<event_series_discord_channel,
                                 discord_channel_event_series, discord_channels,
                                 discord_channel_discord_role>>
             ELSE /\ IF still_current(current_channel, proc[p].channel)
                     THEN /\ repair_channel_store(series_id, Unwrap(proc[p].channel))
                          /\ discord_channel_discord_role' =
                               [h \in BOOLEAN |->
                                  [discord_channel_discord_role[h]
                                     EXCEPT ![Unwrap(proc[p].channel)] = None]]
                     ELSE UNCHANGED <<event_series_discord_channel,
                                      discord_channel_event_series, discord_channels,
                                      discord_channel_discord_role>>
                  /\ proc' = [proc EXCEPT ![p].channel = None, ![p].pc = "sync_channel"]
    /\ UNCHANGED <<event_vars, orphaned_discord_channels, discord_role_discord_channel,
                   discord_roles, orphaned_discord_roles, link_vars, admin_vars,
                   guild_vars, member_roles, now, handler, before_link, task_vars>>

\* The transaction of sync_channel, watching the series' channel key
repair_channel(p) ==
    /\ proc[p].pc = "repair_channel"
    /\ LET series_id == proc[p].series_id
           current_channel == event_series_discord_channel[series_id]
       IN  \E redis_ok \in BOOLEAN :
             IF ~redis_ok
             THEN /\ proc' = Fail(p)
                  /\ UNCHANGED <<event_series_discord_channel,
                                 discord_channel_event_series, discord_channels>>
             ELSE /\ IF still_current(current_channel, proc[p].channel)
                     THEN repair_channel_store(series_id, Unwrap(proc[p].channel))
                     ELSE UNCHANGED <<event_series_discord_channel,
                                      discord_channel_event_series, discord_channels>>
                  /\ proc' = [proc EXCEPT ![p].channel = None, ![p].pc = "sync_channel"]
    /\ UNCHANGED <<event_vars, orphaned_discord_channels, role_vars, link_vars, admin_vars,
                   guild_vars, member_roles, now, handler, before_link, task_vars>>

\* ------------------------------------------------------ the role reconciler
\* sync_role: the head of the retry loop (is_host_role selects the keys)
sync_role(p) ==
    /\ proc[p].pc = "sync_role"
    /\ proc' = IF proc[p].current_num_try > max_retries
               THEN Fail(p)
               ELSE [proc EXCEPT ![p].current_num_try = @ + 1,
                                 ![p].pc = "sync_role_impl"]
    /\ UNCHANGED <<store_vars, guild_vars, member_roles, now, handler, before_link, task_vars>>

\* sync_role_impl: check if the role already exists
sync_role_impl(p) ==
    /\ proc[p].pc = "sync_role_impl"
    /\ \E redis_ok \in BOOLEAN :
         LET channel_role ==
               discord_channel_discord_role[proc[p].is_host_role][Unwrap(proc[p].channel_id)]
         IN  proc' = IF ~redis_ok THEN Fail(p)
                     ELSE IF channel_role # None
                     THEN [proc EXCEPT ![p].role = channel_role,
                                       ![p].pc = "sync_role_exists"]
                     ELSE [proc EXCEPT ![p].pc = "create_role"]
    /\ UNCHANGED <<store_vars, guild_vars, member_roles, now, handler, before_link, task_vars>>

\* format!("[Host] {}", series_name)
host_role_name_plain(series_name) == series_name

\* format!("[Host] {}", series_name)
host_role_name(series_name) == <<"[", "H", "o", "s", "t", "]", " ">> \o series_name

\* GUILD_ID.create_role: the temporary role
create_role(p) ==
    /\ proc[p].pc = "create_role"
    /\ next_id <= MaxId
    /\ \E http_ok \in BOOLEAN :
         IF ~http_ok
         THEN /\ proc' = Fail(p)
              /\ UNCHANGED <<guild_roles, next_id, resource_name>>
         ELSE /\ guild_roles' = guild_roles \cup {next_id}
              /\ resource_name' =
                   [resource_name EXCEPT ![next_id] =
                      IF proc[p].is_host_role THEN host_role_name(proc[p].series_name)
                      ELSE proc[p].series_name]
              /\ next_id' = next_id + 1
              /\ proc' = [proc EXCEPT ![p].temp = Some(next_id), ![p].pc = "bind_role"]
    /\ UNCHANGED <<store_vars, guild_channels, cache_roles, permission_overwrites,
                   channel_topic, channel_category, member_roles, now, handler,
                   before_link, task_vars>>

\* bind_role_store writing the host role's reverse key under the user role's name
bind_role_store_wrong_key(is_host_role, channel_id, temp_channel_role) ==
    /\ discord_roles' =
         [discord_roles EXCEPT ![is_host_role] = @ \cup {temp_channel_role}]
    /\ discord_channel_discord_role' =
         [discord_channel_discord_role EXCEPT
            ![is_host_role][channel_id] = Some(temp_channel_role)]
    /\ discord_role_discord_channel' =
         [discord_role_discord_channel EXCEPT
            ![FALSE][temp_channel_role] = Some(channel_id)]

\* "Persist the new role to Redis"
bind_role_store(is_host_role, channel_id, temp_channel_role) ==
    /\ discord_roles' =
         [discord_roles EXCEPT ![is_host_role] = @ \cup {temp_channel_role}]
    /\ discord_channel_discord_role' =
         [discord_channel_discord_role EXCEPT
            ![is_host_role][channel_id] = Some(temp_channel_role)]
    /\ discord_role_discord_channel' =
         [discord_role_discord_channel EXCEPT
            ![is_host_role][temp_channel_role] = Some(channel_id)]

\* What the transaction returned: the id now in the channel's role key
role_bound(p, tx) ==
    IF delete_temp(FALSE, tx, proc[p].temp)
    THEN [proc EXCEPT ![p].tx = tx, ![p].pc = "delete_temp_role"]
    ELSE [proc EXCEPT ![p].role = tx, ![p].temp = None, ![p].pc = "sync_role_exists"]

\* The transaction of sync_role_impl, watching the channel's role key
bind_role(p) ==
    /\ proc[p].pc = "bind_role"
    /\ LET is_host_role == proc[p].is_host_role
           channel_id == Unwrap(proc[p].channel_id)
           channel_role == discord_channel_discord_role[is_host_role][channel_id]
       IN  \E redis_ok \in BOOLEAN :
             IF ~redis_ok
             THEN /\ proc' = [proc EXCEPT ![p].tx_err = TRUE, ![p].pc = "delete_temp_role"]
                  /\ UNCHANGED <<discord_channel_discord_role,
                                 discord_role_discord_channel, discord_roles>>
             ELSE IF is_some(channel_role)
             THEN /\ proc' = role_bound(p, channel_role)
                  /\ UNCHANGED <<discord_channel_discord_role,
                                 discord_role_discord_channel, discord_roles>>
             ELSE /\ bind_role_store(is_host_role, channel_id, Unwrap(proc[p].temp))
                  /\ proc' = role_bound(p,
                                discord_channel_discord_role'[is_host_role][channel_id])
    /\ UNCHANGED <<event_vars, channel_vars, orphaned_discord_roles, link_vars, admin_vars,
                   guild_vars, member_roles, now, handler, before_link, task_vars>>

\* sync_role_impl returns what the transaction returned
role_impl_return(p) ==
    IF proc[p].tx_err THEN Fail(p)
    ELSE [proc EXCEPT ![p].role = proc[p].tx, ![p].temp = None, ![p].tx = None,
                      ![p].pc = "sync_role_exists"]

\* delete_role(GUILD_ID, temp_channel_role)
delete_temp_role(p) ==
    /\ proc[p].pc = "delete_temp_role"
    /\ \E http_ok \in BOOLEAN :
         IF http_ok
         THEN /\ guild_roles' = guild_roles \ proc[p].temp
              /\ proc' = role_impl_return(p)
         ELSE /\ proc' = [proc EXCEPT ![p].pc = "orphan_role"]
              /\ UNCHANGED guild_roles
    /\ UNCHANGED <<store_vars, guild_channels, cache_roles, next_id, resource_name,
                   permission_overwrites, channel_topic, channel_category,
                   member_roles, now, handler, before_link, task_vars>>

\* sadd("orphaned_discord_roles", temp_channel_role); its failure is only logged
orphan_role(p) ==
    /\ proc[p].pc = "orphan_role"
    /\ \E redis_ok \in BOOLEAN :
         orphaned_discord_roles' =
            IF redis_ok THEN orphaned_discord_roles \cup proc[p].temp
            ELSE orphaned_discord_roles
    /\ proc' = role_impl_return(p)
    /\ UNCHANGED <<event_vars, channel_vars, discord_channel_discord_role,
                   discord_role_discord_channel, discord_roles, link_vars, admin_vars,
                   guild_vars, member_roles, now, handler, before_link, task_vars>>

\* role_return going from the user role straight to the permission overwrites
role_return_user_role_only(p) ==
    [proc EXCEPT ![p].channel_role_id = proc[p].role,
                 ![p].channel_host_role_id = proc[p].role, ![p].role = None,
                 ![p].current_num_try = 0, ![p].is_host_role = FALSE,
                 ![p].pc = "sync_channel_permissions"]

\* sync_role returns Ok(role): on to the host role, then to the permissions
role_return(p) ==
    IF proc[p].is_host_role
    THEN [proc EXCEPT ![p].channel_host_role_id = proc[p].role, ![p].role = None,
                      ![p].current_num_try = 0, ![p].is_host_role = FALSE,
                      ![p].pc = "sync_channel_permissions"]
    ELSE [proc EXCEPT ![p].channel_role_id = proc[p].role, ![p].role = None,
                      ![p].current_num_try = 0, ![p].is_host_role = TRUE,
                      ![p].pc = "sync_role"]

\* "Make sure that the role ID that was returned actually exists on Discord":
\* first the cache, then get_guild_roles
sync_role_exists(p) ==
    /\ proc[p].pc = "sync_role_exists"
    /\ \E http_ok \in BOOLEAN :
         LET in_cache == proc[p].role \subseteq cache_roles
             role_exists == in_cache \/ proc[p].role \subseteq guild_roles
         IN  proc' = IF ~in_cache /\ ~http_ok THEN Fail(p)
                     ELSE IF role_exists THEN role_return(p)
                     ELSE [proc EXCEPT ![p].pc = "repair_role"]
    /\ UNCHANGED <<store_vars, guild_vars, member_roles, now, handler, before_link, task_vars>>

\* repair_role_store without the srem
repair_role_store_no_srem(is_host_role, channel_id, role) ==
    /\ discord_channel_discord_role' =
         [discord_channel_discord_role EXCEPT ![is_host_role][channel_id] = None]
    /\ discord_role_discord_channel' =
         [discord_role_discord_channel EXCEPT ![is_host_role][role] = None]
    /\ UNCHANGED discord_roles

\* "Remove the broken role from Redis"
repair_role_store(is_host_role, channel_id, role) ==
    /\ discord_channel_discord_role' =
         [discord_channel_discord_role EXCEPT ![is_host_role][channel_id] = None]
    /\ discord_role_discord_channel' =
         [discord_role_discord_channel EXCEPT ![is_host_role][role] = None]
    /\ discord_roles' = [discord_roles EXCEPT ![is_host_role] = @ \ {role}]

\* The transaction of sync_role, watching the channel's role key
repair_role(p) ==
    /\ proc[p].pc = "repair_role"
    /\ LET is_host_role == proc[p].is_host_role
           channel_id == Unwrap(proc[p].channel_id)
           current_role == discord_channel_discord_role[is_host_role][channel_id]
       IN  \E redis_ok \in BOOLEAN :
             IF ~redis_ok
             THEN /\ proc' = Fail(p)
                  /\ UNCHANGED <<discord_channel_discord_role,
                                 discord_role_discord_channel, discord_roles>>
             ELSE /\ IF still_current(current_role, proc[p].role)
                     THEN repair_role_store(is_host_role, channel_id, Unwrap(proc[p].role))
                     ELSE UNCHANGED <<discord_channel_discord_role,
                                      discord_role_discord_channel, discord_roles>>
                  /\ proc' = [proc EXCEPT ![p].role = None, ![p].pc = "sync_role"]
    /\ UNCHANGED <<event_vars, channel_vars, orphaned_discord_roles, link_vars, admin_vars,
                   guild_vars, member_roles, now, handler, before_link, task_vars>>

\* ------------------------------------------- concurrent ensure calls
\* The Store and the guild before the calls: series S1 either has no channel, or
\* the channel InitChannel, which may have been deleted on Discord since; that
\* channel in turn may have its two roles, each of which may have been deleted.
Bindings(bound, live) ==
      /\ event_series_discord_channel =
           [s \in Series |-> IF s = "S1" /\ InitChannel \in bound
                             THEN Some(InitChannel) ELSE None]
      /\ discord_channel_event_series =
           [c \in Ids |-> IF c = InitChannel /\ c \in bound THEN Some("S1") ELSE None]
      /\ discord_channels = bound \cap {InitChannel}
      /\ orphaned_discord_channels = {}
      /\ discord_channel_discord_role =
           [h \in BOOLEAN |-> [c \in Ids |->
              IF c # InitChannel THEN None
              ELSE IF h THEN bound \cap {InitHostRole} ELSE bound \cap {InitRole}]]
      /\ discord_role_discord_channel =
           [h \in BOOLEAN |-> [r \in Ids |->
              IF r \in bound /\ r = (IF h THEN InitHostRole ELSE InitRole)
              THEN Some(InitChannel) ELSE None]]
      /\ discord_roles =
           [h \in BOOLEAN |-> IF h THEN bound \cap {InitHostRole} ELSE bound \cap {InitRole}]
      /\ orphaned_discord_roles = {}
      /\ guild_channels = live \cap {InitChannel}
      /\ guild_roles = live \cap {InitRole, InitHostRole}
      /\ cache_roles = guild_roles
      /\ next_id = FirstId
      /\ resource_name = [i \in Ids |-> IF i \in bound THEN <<"a", "b">> ELSE <<>>]
      /\ permission_overwrites =
           [c \in Ids |-> IF c \in live \cap {InitChannel}
                          THEN initial_permission_overwrites ELSE {}]
      /\ channel_topic = [c \in Ids |-> None]
      /\ channel_category = [c \in Ids |-> None]

InitBindings ==
    \E bound \in SUBSET {InitChannel, InitRole, InitHostRole},
       live \in SUBSET {InitChannel, InitRole, InitHostRole} :
      /\ bound # {} => InitChannel \in bound
      /\ live \subseteq bound
      /\ Bindings(bound, live)

\* Every thread calls sync_channel and then sync_role for the same series.
InitEnsure ==
    /\ event_series = Series
    /\ InitEvents /\ InitBindings /\ InitLinkStoreEmpty /\ InitAdminStoreEmpty
    /\ InitMembers
    /\ now = 0
    /\ proc = [p \in Procs |-> [ProcIdle EXCEPT !.pc = "sync_channel",
                                                !.series_id = "S1",
                                                !.series_name = <<"a", "b">>]]
    /\ handler = [h \in Handlers |-> HandlerIdle]
    /\ before_link = NoLink
    /\ InitTasks

NextEnsure ==
    \E p \in Procs :
        \/ sync_channel(p)
        \/ sync_channel_impl(p)
        \/ create_channel(p)
        \/ bind_channel(p)
        \/ delete_temp_channel(p)
        \/ orphan_channel(p)
        \/ sync_channel_exists(p)
        \/ repair_channel(p)
        \/ sync_role(p)
        \/ sync_role_impl(p)
        \/ create_role(p)
        \/ bind_role(p)
        \/ delete_temp_role(p)
        \/ orphan_role(p)
        \/ sync_role_exists(p)
        \/ repair_role(p)

\* The reconciler under concurrent callers.
SpecEnsure == InitEnsure /\ [][NextEnsure]_vars

\* Somebody else deletes a channel or a role on Discord; the client's cache
\* hears of a deleted role at once or later.
deleted_on_discord ==
    /\ \E id \in guild_channels \cup guild_roles :
         /\ guild_channels' = guild_channels \ {id}
         /\ guild_roles' = guild_roles \ {id}
         /\ cache_roles' \in {cache_roles, cache_roles \ {id}}
    /\ UNCHANGED <<store_vars, next_id, resource_name, permission_overwrites,
                   channel_topic, channel_category, member_roles, now, proc, handler,
                   before_link, task_vars>>

\* The sweep thread calls sync_channel and then sync_role for S1.
InitRetry ==
    /\ event_series = Series
    /\ InitEvents /\ InitBindings /\ InitLinkStoreEmpty /\ InitAdminStoreEmpty
    /\ InitMembers
    /\ now = 0
    /\ proc = [p \in Procs |-> IF p \in Sweepers
                                THEN [ProcIdle EXCEPT !.pc = "sync_channel",
                                                      !.series_id = "S1",
                                                      !.series_name = <<"a", "b">>]
                                ELSE ProcIdle]
    /\ handler = [h \in Handlers |-> HandlerIdle]
    /\ before_link = NoLink
    /\ InitTasks

NextRetry ==
    \/ deleted_on_discord
    \/ \E p \in Sweepers :
        \/ sync_channel(p)
        \/ sync_channel_impl(p)
        \/ create_channel(p)
        \/ bind_channel(p)
        \/ delete_temp_channel(p)
        \/ orphan_channel(p)
        \/ sync_channel_exists(p)
        \/ repair_channel(p)
        \/ sync_role(p)
        \/ sync_role_impl(p)
        \/ create_role(p)
        \/ bind_role(p)
        \/ delete_temp_role(p)
        \/ orphan_role(p)
        \/ sync_role_exists(p)
        \/ repair_role(p)

\* The reconciler while channels and roles are being deleted on Discord.
SpecRetry == InitRetry /\ [][NextRetry]_vars

\* ------------------------------------------------------------- the sweep
\* The wall clock advances (chrono::Utc::now() is read by the sweep and by
\* close_channel); it does not run backwards.
Tick ==
    /\ now < MaxTime
    /\ now' = now + 1
    /\ UNCHANGED <<store_vars, guild_vars, member_roles, proc, handler, before_link,
                   task_vars>>

\* sync_discord: read the set of series, then sync them one by one
sync_discord_call(p, redis_ok) ==
    IF ~redis_ok
    THEN [proc EXCEPT ![p].sweep_result = "Err", ![p].num_sweeps = @ + 1,
                      ![p].series_read = None,
                      ![p].attempted = {}, ![p].failed = {}]
    ELSE [proc EXCEPT ![p].pc = "sync_discord_loop",
                      ![p].num_sweeps = @ + 1,
                      ![p].event_series = event_series,
                      ![p].some_failed = FALSE,
                      ![p].sweep_result = "",
                      ![p].series_read = Some(event_series),
                      ![p].attempted = {}, ![p].failed = {}]

\* A sweep starts on thread p.
sync_discord(p) ==
    /\ proc[p].pc = "idle"
    /\ proc[p].num_sweeps < MaxSweeps
    /\ \E redis_ok \in BOOLEAN : proc' = sync_discord_call(p, redis_ok)
    /\ UNCHANGED <<store_vars, guild_vars, member_roles, now, handler, before_link, task_vars>>

\* for series in &event_series { sync_event_series(series, ..) }, then the result
sync_discord_loop(p) ==
    /\ proc[p].pc = "sync_discord_loop"
    /\ \/ /\ proc[p].event_series = {}
          /\ proc' = [proc EXCEPT ![p].pc = "idle",
                                  ![p].sweep_result =
                                     IF proc[p].some_failed THEN "Err" ELSE "Ok"]
       \/ \E series \in proc[p].event_series :
            proc' = [proc EXCEPT ![p].pc = "sync_event_series",
                                 ![p].series_id = series,
                                 ![p].event_series = @ \ {series},
                                 ![p].attempted = @ \cup {series}]
    /\ UNCHANGED <<store_vars, guild_vars, member_roles, now, handler, before_link, task_vars>>

\* series_done with some_failed = is_err in place of some_failed = true
series_done_last_counts(p) ==
    /\ proc[p].pc = "series_done"
    /\ proc' = [proc EXCEPT ![p] = [ProcIdle EXCEPT
                  !.pc = "sync_discord_loop",
                  !.event_series = proc[p].event_series,
                  !.num_sweeps = proc[p].num_sweeps,
                  !.some_failed = (proc[p].result = "Err"),
                  !.series_read = proc[p].series_read,
                  !.attempted = proc[p].attempted,
                  !.failed = proc[p].failed \cup
                               (IF proc[p].result = "Err" THEN {proc[p].series_id} ELSE {})]]
    /\ UNCHANGED <<store_vars, guild_vars, member_roles, now, handler, before_link, task_vars>>

\* if let Err(err) = sync_event_series(..) { some_failed = true }
series_done(p) ==
    /\ proc[p].pc = "series_done"
    /\ proc' = [proc EXCEPT ![p] = [ProcIdle EXCEPT
                  !.pc = "sync_discord_loop",
                  !.event_series = proc[p].event_series,
                  !.num_sweeps = proc[p].num_sweeps,
                  !.some_failed = proc[p].some_failed \/ proc[p].result = "Err",
                  !.series_read = proc[p].series_read,
                  !.attempted = proc[p].attempted,
                  !.failed = proc[p].failed \cup
                               (IF proc[p].result = "Err" THEN {proc[p].series_id} ELSE {})]]
    /\ UNCHANGED <<store_vars, guild_vars, member_roles, now, handler, before_link, task_vars>>

\* ------------------------------------------------------- the sweep task
\* "Retry in a minute" / "Do another sync in 15 minutes"
RetryMinutes == 1
RepeatMinutes == 15

\* white_rabbit::DateResult
Done == [kind |-> "Done", time |-> 0]
Repeat(time) == [kind |-> "Repeat", time |-> time]

\* create_sync_discord_task re-arming a one-shot task as well
create_sync_discord_task_heedless(recurring, sync_result, utc_now) ==
    Repeat(IF sync_result = "Err" THEN utc_now + RetryMinutes ELSE utc_now + RepeatMinutes)

\* The closure of create_sync_discord_task once sync_discord has returned
create_sync_discord_task(recurring, sync_result, utc_now) ==
    LET next_sync_time == IF sync_result = "Err" THEN utc_now + RetryMinutes
                          ELSE utc_now + RepeatMinutes
    IN  IF recurring THEN Repeat(next_sync_time) ELSE Done

\* The sequence without its i-th element
Without(seq, i) == SubSeq(seq, 1, i - 1) \o SubSeq(seq, i + 1, Len(seq))

\* The scheduler calls a sweep task that is due: sync_discord starts on thread p
run_sync_discord_task(p) ==
    /\ proc[p].pc = "idle"
    /\ proc[p].num_sweeps < MaxSweeps
    /\ \A i \in DOMAIN task_scheduler : ~task_scheduler[i].running
    /\ \E i \in DOMAIN task_scheduler, redis_ok \in BOOLEAN :
         /\ task_scheduler[i].name = "create_sync_discord_task"
         /\ task_scheduler[i].time <= now
         /\ task_scheduler' = [task_scheduler EXCEPT ![i].running = TRUE]
         /\ proc' = sync_discord_call(p, redis_ok)
    /\ UNCHANGED <<store_vars, guild_vars, member_roles, now, handler, before_link,
                   stopped, future_spawner>>

\* sync_discord has returned to the closure; the scheduler re-arms the task on
\* Repeat(time) and drops it on Done
sync_discord_task_return(p) ==
    /\ proc[p].pc = "idle"
    /\ \E i \in DOMAIN task_scheduler :
         /\ task_scheduler[i].running
         /\ LET task == task_scheduler[i]
                date_result == create_sync_discord_task(task.recurring,
                                                        proc[p].sweep_result, now)
            IN  task_scheduler' =
                  IF date_result.kind = "Repeat"
                  THEN [task_scheduler EXCEPT ![i].running = FALSE,
                                              ![i].time = date_result.time]
                  ELSE Without(task_scheduler, i)
    /\ UNCHANGED <<store_vars, guild_vars, member_roles, now, proc, handler, before_link,
                   stopped, future_spawner>>

IsSpace(ch) == ch = " "
IsBracket(ch) == ch \in {"[", "("}
Max(S) == CHOOSE x \in S : \A y \in S : y <= x

\* EVENT_NAME_REGEX = ^\s*(?P<name>[^\[\(]+[^\s\[\(]) : the capture group "name",
\* or None.  \s* is greedy and gives characters back when the group needs them.
EVENT_NAME_REGEX(event_name) ==
    LET n == Len(event_name)
        \* the leading whitespace
        w == Max({k \in 0..n : \A i \in 1..k : IsSpace(event_name[i])})
        \* the first bracket ends the run the group can match in
        b == IF \E i \in 1..n : IsBracket(event_name[i])
             THEN CHOOSE i \in 1..n : /\ IsBracket(event_name[i])
                                      /\ \A j \in 1..(i - 1) : ~IsBracket(event_name[j])
             ELSE n + 1
        \* where a group that starts after k characters of whitespace can end
        Ends(k) == {l \in (k + 2)..(b - 1) : ~IsSpace(event_name[l])}
        starts == {k \in 0..w : Ends(k) # {}}
    IN  IF starts = {} THEN None
        ELSE Some(SubSeq(event_name, Max(starts) + 1, Max(Ends(Max(starts)))))

\* series_name.len() < 2 || series_name.len() > 80
bad_len(series_name) == Len(series_name) < 2 \/ Len(series_name) > 80

\* is_upcoming counting an event that starts this instant
is_upcoming_or_now(time, utc_now) == time >= utc_now

\* "Filter past events": .filter(|event| event.time > now)
is_upcoming(time, utc_now) == time > utc_now

\* sync_event_series up to step 0: pick the next upcoming event and take the
\* series name from its title.  An event whose hash cannot be read (events are
\* those that could) or whose time does not parse is left out.
pick_next_event_of(p, redis_ok, events) ==
    /\ LET time(e) == parse_from_rfc3339(Some(meetup_event[e].time))
           parsed == {e \in events : ~time(e).err}
           upcoming == {e \in parsed : is_upcoming(Unwrap(time(e).time), now)}
           first == {e \in upcoming :
                       \A f \in upcoming : Unwrap(time(e).time) <= Unwrap(time(f).time)}
       IN  IF ~redis_ok THEN proc' = Fail(p)
           ELSE IF upcoming = {} THEN proc' = Return(p, "Ok")
           ELSE \E next_event \in first :
                  LET series_name == EVENT_NAME_REGEX(meetup_event[next_event].name)
                  IN  proc' =
                        IF series_name = None THEN Fail(p)
                        ELSE IF bad_len(Unwrap(series_name)) THEN Fail(p)
                        ELSE [proc EXCEPT ![p].series_name = Unwrap(series_name),
                                          ![p].next_event = Some(next_event),
                                          ![p].current_num_try = 0,
                                          ![p].pc = "sync_channel"]
    /\ UNCHANGED <<store_vars, guild_vars, member_roles, now, handler, before_link, task_vars>>

\* The events whose hash is read are any of the series' events
pick_next_event(p, redis_ok) ==
    \E events \in SUBSET series_meetup_events[proc[p].series_id] :
       pick_next_event_of(p, redis_ok, events)

\* sync_event_series is entered; redis_ok: the read of the series' event ids succeeds
sync_event_series(p) ==
    /\ proc[p].pc = "sync_event_series"
    /\ \E redis_ok \in BOOLEAN : pick_next_event(p, redis_ok)

\* canonical_permission_overwrites giving the host role the user role's permissions
canonical_host_as_user(role_id, host_role_id) ==
    << [kind |-> "Role", id |-> GUILD_ID, allow |-> {}, deny |-> {"READ_MESSAGES"}],
       [kind |-> "Member", id |-> bot_id, allow |-> {"READ_MESSAGES"}, deny |-> {}],
       [kind |-> "Role", id |-> role_id,
        allow |-> {"READ_MESSAGES", "MENTION_EVERYONE"}, deny |-> {}],
       [kind |-> "Role", id |-> host_role_id,
        allow |-> {"READ_MESSAGES", "MENTION_EVERYONE"}, deny |-> {}] >>

\* canonical_permission_overwrites letting @everyone read
canonical_everyone_reads(role_id, host_role_id) ==
    << [kind |-> "Role", id |-> GUILD_ID, allow |-> {"READ_MESSAGES"}, deny |-> {}],
       [kind |-> "Member", id |-> bot_id, allow |-> {"READ_MESSAGES"}, deny |-> {}],
       [kind |-> "Role", id |-> role_id,
        allow |-> {"READ_MESSAGES", "MENTION_EVERYONE"}, deny |-> {}],
       [kind |-> "Role", id |-> host_role_id,
        allow |-> {"READ_MESSAGES", "MENTION_EVERYONE", "MANAGE_MESSAGES"}, deny |-> {}] >>

\* The array permission_overwrites of sync_channel_permissions, in its order
canonical_permission_overwrites(role_id, host_role_id) ==
    << [kind |-> "Role", id |-> GUILD_ID, allow |-> {}, deny |-> {"READ_MESSAGES"}],
       [kind |-> "Member", id |-> bot_id, allow |-> {"READ_MESSAGES"}, deny |-> {}],
       [kind |-> "Role", id |-> role_id,
        allow |-> {"READ_MESSAGES", "MENTION_EVERYONE"}, deny |-> {}],
       [kind |-> "Role", id |-> host_role_id,
        allow |-> {"READ_MESSAGES", "MENTION_EVERYONE", "MANAGE_MESSAGES"}, deny |-> {}] >>

\* create_permission: the overwrite replaces the one of the same target
create_permission(overwrites, overwrite) ==
    {o \in overwrites : ~(o.kind = overwrite.kind /\ o.id = overwrite.id)} \cup {overwrite}

\* The first k calls of the loop over the array succeeded
RECURSIVE create_permissions(_, _, _)
create_permissions(overwrites, array, k) ==
    IF k = 0 THEN overwrites
    ELSE create_permission(create_permissions(overwrites, array, k - 1), array[k])

\* Step 4: sync_channel_permissions; a failed call ends the series sync
sync_channel_permissions(p) ==
    /\ proc[p].pc = "sync_channel_permissions"
    /\ LET channel_id == Unwrap(proc[p].channel_id)
           array == canonical_permission_overwrites(Unwrap(proc[p].channel_role_id),
                                                    Unwrap(proc[p].channel_host_role_id))
       IN  \E k \in 0..Len(array) :
             /\ k > 0 => channel_id \in guild_channels
             /\ permission_overwrites' =
                  [permission_overwrites EXCEPT
                     ![channel_id] = create_permissions(@, array, k)]
             /\ proc' = IF k < Len(array) THEN Fail(p)
                        ELSE [proc EXCEPT ![p].is_host_role = FALSE,
                                          ![p].pc = "sync_user_role_assignments"]
    /\ UNCHANGED <<store_vars, guild_channels, guild_roles, cache_roles, next_id,
                   resource_name, channel_topic, channel_category, member_roles, now,
                   handler, before_link, task_vars>>

\* ignore_discord_user_ids reading both sets for either role
ignore_removed_of_either(is_host_role, channel) ==
    removed_hosts[channel] \cup removed_users[channel]

\* ignore_discord_user_ids reading removed_hosts alone for the host role
ignore_removed_hosts_only(is_host_role, channel) ==
    IF is_host_role THEN removed_hosts[channel] ELSE removed_users[channel]

\* "Check whether any users have manually removed roles and don't add them back"
ignore_discord_user_ids(is_host_role, channel) ==
    IF is_host_role THEN removed_hosts[channel] \cup removed_users[channel]
    ELSE removed_users[channel]

\* sync_user_role_assignments returns Ok(()): steps 5a, 5b, then step 6
role_assignments_return(p) ==
    IF proc[p].is_host_role
    THEN [proc EXCEPT ![p].discord_user_ids = {}, ![p].ignore_discord_user_ids = {},
                      ![p].removed_users_read = {}, ![p].is_host_role = FALSE,
                      ![p].pc = "sync_game_master_role"]
    ELSE [proc EXCEPT ![p].discord_user_ids = {}, ![p].ignore_discord_user_ids = {},
                      ![p].removed_users_read = {}, ![p].is_host_role = TRUE,
                      ![p].pc = "sync_user_role_assignments"]

\* Step 5: sync_user_role_assignments, its reads of the Store.
\* removed_users_read records the channel's removed_users as of these reads.
sync_user_role_assignments(p) ==
    /\ proc[p].pc = "sync_user_role_assignments"
    /\ \E redis_ok \in BOOLEAN :
         LET is_host_role == proc[p].is_host_role
             channel == Unwrap(proc[p].channel_id)
             event_ids == series_meetup_events[proc[p].series_id]
             meetup_user_ids ==
                UNION {IF is_host_role THEN meetup_event_meetup_hosts[e]
                       ELSE meetup_event_meetup_users[e] : e \in event_ids}
             discord_user_ids == UNION {meetup_user_discord_user[m] : m \in meetup_user_ids}
         IN  proc' =
               IF ~redis_ok THEN Fail(p)
               ELSE IF event_ids = {} THEN role_assignments_return(p)
               ELSE [proc EXCEPT
                       ![p].discord_user_ids = discord_user_ids,
                       ![p].ignore_discord_user_ids =
                          ignore_discord_user_ids(is_host_role, channel),
                       ![p].removed_users_read = removed_users[channel],
                       ![p].pc = "assign_role"]
    /\ UNCHANGED <<store_vars, guild_vars, member_roles, now, handler, before_link, task_vars>>

\* http.add_member_role: Discord refuses a role that does not exist
add_member_role(roles, http_ok, user_id, role) ==
    IF http_ok /\ role \in guild_roles
    THEN [roles EXCEPT ![user_id] = @ \cup {role}]
    ELSE roles

\* http.remove_member_role
remove_member_role(roles, http_ok, user_id, role) ==
    IF http_ok THEN [roles EXCEPT ![user_id] = @ \ {role}] ELSE roles

\* assign_role ending the series sync when a call for a user fails
assign_role_or_give_up(p) ==
    /\ proc[p].pc = "assign_role"
    /\ LET role == IF proc[p].is_host_role THEN Unwrap(proc[p].channel_host_role_id)
                   ELSE Unwrap(proc[p].channel_role_id)
       IN  \/ /\ proc[p].discord_user_ids = {}
              /\ proc' = role_assignments_return(p)
              /\ UNCHANGED member_roles
           \/ \E user_id \in proc[p].discord_user_ids, http_ok \in BOOLEAN :
                /\ member_roles' =
                     IF user_id \in proc[p].ignore_discord_user_ids THEN member_roles
                     ELSE add_member_role(member_roles, http_ok, user_id, role)
                /\ proc' = IF http_ok
                           THEN [proc EXCEPT ![p].discord_user_ids = @ \ {user_id}]
                           ELSE Fail(p)
    /\ UNCHANGED <<store_vars, guild_vars, now, handler, before_link, task_vars>>

\* "Lastly, actually assign the role to the Discord users": one turn of the loop
assign_role(p) ==
    /\ proc[p].pc = "assign_role"
    /\ LET role == IF proc[p].is_host_role THEN Unwrap(proc[p].channel_host_role_id)
                   ELSE Unwrap(proc[p].channel_role_id)
       IN  \/ /\ proc[p].discord_user_ids = {}
              /\ proc' = role_assignments_return(p)
              /\ UNCHANGED member_roles
           \/ \E user_id \in proc[p].discord_user_ids, http_ok \in BOOLEAN :
                /\ member_roles' =
                     IF user_id \in proc[p].ignore_discord_user_ids THEN member_roles
                     ELSE add_member_role(member_roles, http_ok, user_id, role)
                /\ proc' = [proc EXCEPT ![p].discord_user_ids = @ \ {user_id}]
    /\ UNCHANGED <<store_vars, guild_vars, now, handler, before_link, task_vars>>

\* add_member_role for each user of a set; the calls for `failed` do not succeed
RECURSIVE add_member_role_all(_, _, _, _)
add_member_role_all(roles, user_ids, failed, role) ==
    IF user_ids = {} THEN roles
    ELSE LET user_id == CHOOSE u \in user_ids : TRUE
             rest == add_member_role_all(roles, user_ids \ {user_id}, failed, role)
         IN  IF user_id \in failed THEN rest
             ELSE [rest EXCEPT ![user_id] = @ \cup {role}]

\* Step 6: sync_game_master_role
sync_game_master_role(p) ==
    /\ proc[p].pc = "sync_game_master_role"
    /\ LET event_ids == series_meetup_events[proc[p].series_id]
           meetup_host_ids == UNION {meetup_event_meetup_hosts[e] : e \in event_ids}
           discord_host_ids == UNION {meetup_user_discord_user[m] : m \in meetup_host_ids}
       IN  \E redis_ok \in BOOLEAN, failed \in SUBSET discord_host_ids :
             IF ~redis_ok
             THEN /\ proc' = Fail(p)
                  /\ UNCHANGED member_roles
             ELSE /\ member_roles' =
                       add_member_role_all(member_roles, discord_host_ids, failed,
                                           GAME_MASTER_ID)
                  /\ proc' = [proc EXCEPT ![p].pc = "sync_channel_topic_and_category"]
    /\ UNCHANGED <<store_vars, guild_vars, now, handler, before_link, task_vars>>

\* format!("Next session: {}", &next_event.link)
topic_of(next_event) == <<"Next session: ", meetup_event[next_event].link>>

\* category_of taking every type but "campaign" for a one-shot
category_of_campaign_only(event_type) ==
    IF event_type = Some("campaign") THEN CAMPAIGN_CATEGORY_ID ELSE ONE_SHOT_CATEGORY_ID

\* The category of the series' type; an unknown type counts as a campaign
category_of(event_type) ==
    IF event_type = Some("adventure") THEN ONE_SHOT_CATEGORY_ID ELSE CAMPAIGN_CATEGORY_ID

\* Step 7: sync_channel_topic_and_category, then sync_event_series returns Ok(())
sync_channel_topic_and_category(p) ==
    /\ proc[p].pc = "sync_channel_topic_and_category"
    /\ LET channel_id == Unwrap(proc[p].channel_id)
           topic == topic_of(Unwrap(proc[p].next_event))
           category == category_of(series_type[proc[p].series_id])
           channel_needs_update ==
              channel_topic[channel_id] # Some(topic)
                \/ channel_category[channel_id] # Some(category)
       IN  \E redis_ok \in BOOLEAN, http_ok \in BOOLEAN :
             IF ~redis_ok \/ ~http_ok \/ channel_id \notin guild_channels
             THEN /\ proc' = Fail(p)
                  /\ UNCHANGED <<channel_topic, channel_category>>
             ELSE /\ channel_topic' =
                       IF channel_needs_update
                       THEN [channel_topic EXCEPT ![channel_id] = Some(topic)]
                       ELSE channel_topic
                  /\ channel_category' =
                       IF channel_needs_update
                       THEN [channel_category EXCEPT ![channel_id] = Some(category)]
                       ELSE channel_category
                  /\ proc' = Return(p, "Ok")
    /\ UNCHANGED <<store_vars, guild_channels, guild_roles, cache_roles, next_id,
                   resource_name, permission_overwrites, member_roles, now, handler,
                   before_link, task_vars>>

\* ------------------------------------------------- channel administration
\* get_channel_roles taking a channel with one of its two roles for an external one
get_channel_roles_lenient(channel_id) ==
    LET role == discord_channel_discord_role[FALSE][channel_id]
        host_role == discord_channel_discord_role[TRUE][channel_id]
    IN  IF role # None /\ host_role # None
        THEN [err |-> FALSE,
              roles |-> Some([user |-> Unwrap(role), host |-> Unwrap(host_role)])]
        ELSE [err |-> FALSE, roles |-> None]

\* get_channel_roles taking the one role that is bound for both
get_channel_roles_either(channel_id) ==
    LET role == discord_channel_discord_role[FALSE][channel_id]
        host_role == discord_channel_discord_role[TRUE][channel_id]
    IN  IF role = None /\ host_role = None THEN [err |-> FALSE, roles |-> None]
        ELSE [err |-> FALSE,
              roles |-> Some([user |-> Unwrap(IF role # None THEN role ELSE host_role),
                              host |-> Unwrap(IF host_role # None THEN host_role
                                              ELSE role)])]

\* get_channel_roles: Ok(Some(roles)), Ok(None), or Err when only one role is bound
get_channel_roles(channel_id) ==
    LET role == discord_channel_discord_role[FALSE][channel_id]
        host_role == discord_channel_discord_role[TRUE][channel_id]
    IN  IF role # None /\ host_role # None
        THEN [err |-> FALSE,
              roles |-> Some([user |-> Unwrap(role), host |-> Unwrap(host_role)])]
        ELSE IF role = None /\ host_role = None THEN [err |-> FALSE, roles |-> None]
        ELSE [err |-> TRUE, roles |-> None]

\* msg.author.has_role(ctx, GUILD_ID, channel_roles.host).unwrap_or(false)
is_host(author, host_role) == has_role(author, host_role)

\* already_marked also refusing a mark of this very instant
already_marked_or_same(new_deletion_time, current_deletion_time) ==
    \E t \in current_deletion_time : new_deletion_time >= t

\* already_marked with the comparison turned around
already_marked_if_earlier(new_deletion_time, current_deletion_time) ==
    \E t \in current_deletion_time : new_deletion_time < t

\* if let Some(current) = current_deletion_time { if new_deletion_time > current {..} }
already_marked(new_deletion_time, current_deletion_time) ==
    \E t \in current_deletion_time : new_deletion_time > t

\* is_channel_admin letting every author of a bot-controlled channel pass
is_channel_admin_anyone(author, channel_roles) ==
    IF channel_roles.roles = None THEN {FALSE} ELSE {TRUE}

\* "This is only for organizers and channel hosts": the outcomes of the check
is_channel_admin(author, channel_roles) ==
    IF channel_roles.roles = None THEN {FALSE}
    ELSE {organizer \/ host : organizer \in is_organizer(author),
                              host \in is_host(author, Unwrap(channel_roles.roles).host)}

\* not_yet_closeable with the comparison turned around
not_yet_closeable_if_past(expiration_time_parsed, utc_now) ==
    \E t \in expiration_time_parsed : t < utc_now

\* if let Some(expiration_time) = .. { if expiration_time > chrono::Utc::now() {..} }
not_yet_closeable(expiration_time_parsed, utc_now) ==
    \E t \in expiration_time_parsed : t > utc_now

\* close_channel, for the message "close channel" that author wrote in channel
\* channel_id, up to its read of deletion_time
close_channel_msg(h, author, channel_id) ==
    /\ \E redis_ok \in BOOLEAN :
        \E admin \in is_channel_admin(author, get_channel_roles(channel_id)) :
         LET channel_roles == get_channel_roles(channel_id)
             expiration == parse_from_rfc3339(expiration_time[channel_id])
             new_deletion_time == now
             current == parse_from_rfc3339(deletion_time[channel_id])
         IN  handler' =
               IF ~redis_ok \/ channel_roles.err THEN Reply(h, "UNSPECIFIED_ERROR")
               ELSE IF channel_roles.roles = None
                    THEN Reply(h, "CHANNEL_NOT_BOT_CONTROLLED")
               ELSE IF ~admin THEN Reply(h, "NOT_A_CHANNEL_ADMIN")
               ELSE IF expiration.err THEN Reply(h, "UNSPECIFIED_ERROR")
               ELSE IF not_yet_closeable(expiration.time, now)
                    THEN Reply(h, "CHANNEL_NOT_YET_CLOSEABLE")
               ELSE IF current.err THEN Reply(h, "UNSPECIFIED_ERROR")
               ELSE IF already_marked(new_deletion_time, current.time)
                    THEN Reply(h, "CHANNEL_ALREADY_MARKED_FOR_CLOSING")
               ELSE [handler EXCEPT ![h] = [HandlerIdle EXCEPT
                       !.pc = "close_channel_set",
                       !.channel_id = channel_id,
                       !.new_deletion_time = new_deletion_time,
                       !.current_deletion_time = current.time]]
    /\ UNCHANGED <<store_vars, guild_vars, member_roles, now, proc, before_link, task_vars>>

\* A handler thread picks up a message "close channel".
close_channel(h) ==
    /\ handler[h].pc = "idle"
    /\ \E author \in DiscordUsers, channel_id \in guild_channels :
         close_channel_msg(h, author, channel_id)

\* redis_connection.set(deletion_time key, new_deletion_time.to_rfc3339())
close_channel_set(h) ==
    /\ handler[h].pc = "close_channel_set"
    /\ \E redis_ok \in BOOLEAN :
         IF ~redis_ok
         THEN /\ handler' = Reply(h, "UNSPECIFIED_ERROR")
              /\ UNCHANGED deletion_time
         ELSE /\ deletion_time' =
                   [deletion_time EXCEPT ![handler[h].channel_id] =
                      Some(to_rfc3339(handler[h].new_deletion_time))]
              /\ handler' = Reply(h, "CHANNEL_MARKED_FOR_CLOSING")
    /\ UNCHANGED <<event_vars, channel_vars, role_vars, link_vars, removed_users,
                   removed_hosts, expiration_time, guild_vars, member_roles, now, proc,
                   before_link, task_vars>>

\* remove_user giving up when the removal of the host role fails
remove_user_or_give_up(h, channel_id, roles, discord_id, as_host, http_ok1, http_ok2) ==
    IF ~http_ok1
    THEN /\ UNCHANGED member_roles
         /\ handler' = Reply(h, "CHANNEL_ROLE_REMOVE_ERROR")
    ELSE /\ member_roles' =
              remove_member_role(
                 remove_member_role(member_roles, http_ok1, discord_id, roles.host),
                 ~as_host /\ http_ok2, discord_id, roles.user)
         /\ handler' =
              [handler EXCEPT ![h] = [HandlerIdle EXCEPT
                 !.pc = "remember_removed",
                 !.channel_id = channel_id,
                 !.discord_id = discord_id,
                 !.as_host = as_host,
                 !.reply = IF ~as_host /\ ~http_ok2
                           THEN "CHANNEL_ROLE_REMOVE_ERROR" ELSE ""]]

\* "Try to remove the user from the channel": the host role, and the user role
\* unless as_host; a failed call is answered and the command goes on
remove_user(h, channel_id, roles, discord_id, as_host, http_ok1, http_ok2) ==
    /\ member_roles' =
         remove_member_role(
            remove_member_role(member_roles, http_ok1, discord_id, roles.host),
            ~as_host /\ http_ok2, discord_id, roles.user)
    /\ handler' =
         [handler EXCEPT ![h] = [HandlerIdle EXCEPT
            !.pc = "remember_removed",
            !.channel_id = channel_id,
            !.discord_id = discord_id,
            !.as_host = as_host,
            !.reply = IF ~http_ok1 \/ (~as_host /\ ~http_ok2)
                      THEN "CHANNEL_ROLE_REMOVE_ERROR" ELSE ""]]

\* The Discord calls of channel_add_or_remove_user and the message they end with
add_or_remove_user(h, channel_id, roles) ==
    \E discord_id \in DiscordUsers, add \in BOOLEAN, as_host \in BOOLEAN,
       http_ok1 \in BOOLEAN, http_ok2 \in BOOLEAN :
      IF add
      THEN /\ member_roles' =
                add_member_role(
                   add_member_role(member_roles, http_ok1, discord_id, roles.user),
                   as_host /\ http_ok2, discord_id, roles.host)
           /\ handler' =
                Reply(h, IF as_host
                         THEN (IF http_ok2 /\ roles.host \in guild_roles
                               THEN "CHANNEL_ADDED_NEW_HOST"
                               ELSE "CHANNEL_ROLE_ADD_ERROR")
                         ELSE (IF http_ok1 /\ roles.user \in guild_roles
                               THEN "Welcome" ELSE "CHANNEL_ROLE_ADD_ERROR"))
      ELSE remove_user(h, channel_id, roles, discord_id, as_host, http_ok1, http_ok2)

\* channel_add_or_remove_user, for a message "add/remove user/host <@discord_id>"
\* that author wrote in channel channel_id, up to its Discord calls
channel_add_or_remove_user_msg(h, author, channel_id) ==
    /\ \E redis_ok \in BOOLEAN :
        \E admin \in is_channel_admin(author, get_channel_roles(channel_id)) :
         LET channel_roles == get_channel_roles(channel_id)
         IN  IF ~redis_ok \/ channel_roles.err
             THEN /\ handler' = Reply(h, "UNSPECIFIED_ERROR")
                  /\ UNCHANGED member_roles
             ELSE IF channel_roles.roles = None
             THEN /\ handler' = Reply(h, "CHANNEL_NOT_BOT_CONTROLLED")
                  /\ UNCHANGED member_roles
             ELSE IF ~admin
             THEN /\ handler' = Reply(h, "NOT_A_CHANNEL_ADMIN")
                  /\ UNCHANGED member_roles
             ELSE add_or_remove_user(h, channel_id, Unwrap(channel_roles.roles))
    /\ UNCHANGED <<store_vars, guild_vars, now, proc, before_link, task_vars>>

\* A handler thread picks up one of the four add / remove messages.
channel_add_or_remove_user(h) ==
    /\ handler[h].pc = "idle"
    /\ \E author \in DiscordUsers, channel_id \in guild_channels :
         channel_add_or_remove_user_msg(h, author, channel_id)

\* remember_removed writing the set anew (SET for SADD)
remember_removed_alone(h) ==
    /\ handler[h].pc = "remember_removed"
    /\ handler' = Reply(h, handler[h].reply)
    /\ IF handler[h].as_host
       THEN /\ removed_hosts' =
                 [removed_hosts EXCEPT ![handler[h].channel_id] = {handler[h].discord_id}]
            /\ UNCHANGED removed_users
       ELSE /\ removed_users' =
                 [removed_users EXCEPT ![handler[h].channel_id] = {handler[h].discord_id}]
            /\ UNCHANGED removed_hosts
    /\ UNCHANGED <<event_vars, channel_vars, role_vars, link_vars, expiration_time,
                   deletion_time, guild_vars, member_roles, now, proc, before_link,
                   task_vars>>

\* "Remember which users were removed manually"
remember_removed(h) ==
    /\ handler[h].pc = "remember_removed"
    /\ \E redis_ok \in BOOLEAN :
         IF ~redis_ok
         THEN /\ handler' = Reply(h, "UNSPECIFIED_ERROR")
              /\ UNCHANGED <<removed_users, removed_hosts>>
         ELSE /\ handler' = Reply(h, handler[h].reply)
              /\ IF handler[h].as_host
                 THEN /\ removed_hosts' =
                           [removed_hosts EXCEPT ![handler[h].channel_id] =
                              @ \cup {handler[h].discord_id}]
                      /\ UNCHANGED removed_users
                 ELSE /\ removed_users' =
                           [removed_users EXCEPT ![handler[h].channel_id] =
                              @ \cup {handler[h].discord_id}]
                      /\ UNCHANGED removed_hosts
    /\ UNCHANGED <<event_vars, channel_vars, role_vars, link_vars, expiration_time,
                   deletion_time, guild_vars, member_roles, now, proc, before_link,
                   task_vars>>

\* ------------------------------------------------------ the specifications
\* Meetup user m is linked to Discord user m.
InitLinked ==
    /\ discord_user_meetup_user = [d \in DiscordUsers |-> Some(d)]
    /\ meetup_user_discord_user =
         [m \in MeetupIds |-> IF m \in DiscordUsers THEN Some(m) ELSE None]
    /\ meetup_users = DiscordUsers
    /\ discord_users = DiscordUsers

InitSweep ==
    /\ event_series = {"S1"}
    /\ InitEvents /\ InitBindings /\ InitLinked /\ InitAdminStoreEmpty
    /\ InitMembers /\ InitThreads
    /\ now = 0

NextSweep ==
    \/ Tick
    \/ \E p \in Sweepers :
        \/ sync_discord(p)
        \/ sync_discord_loop(p)
        \/ sync_event_series(p)
        \/ sync_channel(p)
        \/ sync_channel_impl(p)
        \/ create_channel(p)
        \/ bind_channel(p)
        \/ delete_temp_channel(p)
        \/ orphan_channel(p)
        \/ sync_channel_exists(p)
        \/ repair_channel(p)
        \/ sync_role(p)
        \/ sync_role_impl(p)
        \/ create_role(p)
        \/ bind_role(p)
        \/ delete_temp_role(p)
        \/ orphan_role(p)
        \/ sync_role_exists(p)
        \/ repair_role(p)
        \/ sync_channel_permissions(p)
        \/ sync_user_role_assignments(p)
        \/ assign_role(p)
        \/ sync_game_master_role(p)
        \/ sync_channel_topic_and_category(p)
        \/ series_done(p)

\* The recurring sweep while time passes.
SpecSweep == InitSweep /\ [][NextSweep]_vars

\* The series' channel and its two roles exist and are bound.
InitAdmin ==
    /\ event_series = {"S1"}
    /\ InitEvents
    /\ Bindings({InitChannel, InitRole, InitHostRole}, {InitChannel, InitRole, InitHostRole})
    /\ InitLinked /\ InitAdminStoreEmpty /\ InitMembers /\ InitThreads
    /\ now = 0

NextAdmin ==
    \/ \E p \in Sweepers :
        \/ sync_discord(p)
        \/ sync_discord_loop(p)
        \/ sync_event_series(p)
        \/ sync_channel(p)
        \/ sync_channel_impl(p)
        \/ sync_channel_exists(p)
        \/ sync_role(p)
        \/ sync_role_impl(p)
        \/ sync_role_exists(p)
        \/ sync_channel_permissions(p)
        \/ sync_user_role_assignments(p)
        \/ assign_role(p)
        \/ sync_game_master_role(p)
        \/ sync_channel_topic_and_category(p)
        \/ series_done(p)
    \/ \E h \in Admins :
        \/ channel_add_or_remove_user(h)
        \/ remember_removed(h)

\* The recurring sweep of a series whose resources exist, next to the handler
\* thread serving add and remove commands.
SpecAdmin == InitAdmin /\ [][NextAdmin]_vars

\* The channel's expiration time is unset, past, future, or not a time; member
\* 2 may be a host of the channel.
InitClose ==
    /\ event_series = Series
    /\ InitEvents /\ InitBindings /\ InitLinked /\ InitThreads
    /\ removed_users = [c \in Ids |-> {}]
    /\ removed_hosts = [c \in Ids |-> {}]
    /\ \E expiration \in {None, Some(to_rfc3339(0)), Some(to_rfc3339(2)), Some(NotATime)} :
         expiration_time = [c \in Ids |-> IF c = InitChannel THEN expiration ELSE None]
    /\ deletion_time = [c \in Ids |-> None]
    /\ \E host_roles \in SUBSET {InitHostRole} :
         member_roles = [u \in DiscordUsers |-> IF u = 1 THEN {ORGANIZER_ID} ELSE host_roles]
    /\ now = 0

NextClose ==
    \/ Tick
    \/ \E h \in Handlers :
        \/ close_channel(h)
        \/ close_channel_set(h)

\* The handler threads serving close commands while time passes.
SpecClose == InitClose /\ [][NextClose]_vars

\* The series' channel and its two roles exist and are bound; member 1 is an
\* organiser, member 2 may be a host of the channel.
InitCommands ==
    /\ event_series = {"S1"}
    /\ InitEvents
    /\ Bindings({InitChannel, InitRole, InitHostRole}, {InitChannel, InitRole, InitHostRole})
    /\ InitLinked /\ InitAdminStoreEmpty /\ InitThreads
    /\ \E host_roles \in SUBSET {InitHostRole} :
         member_roles = [u \in DiscordUsers |-> IF u = 1 THEN {ORGANIZER_ID} ELSE host_roles]
    /\ now = 0

NextCommands ==
    \E h \in Admins :
        \/ channel_add_or_remove_user(h)
        \/ remember_removed(h)
        \/ close_channel(h)
        \/ close_channel_set(h)

\* The handler thread serving the channel administration commands.
SpecCommands == InitCommands /\ [][NextCommands]_vars

\* The channel exists; it is bound or not, and a bound channel has any of its
\* two roles; member 1 is an organiser, member 2 may be a host of the channel.
InitClassify ==
    /\ event_series = {"S1"}
    /\ InitEvents
    /\ \E bound \in SUBSET {InitChannel, InitRole, InitHostRole} :
         /\ bound # {} => InitChannel \in bound
         /\ Bindings(bound, bound \cup {InitChannel})
    /\ InitLinked /\ InitAdminStoreEmpty /\ InitThreads
    /\ \E host_roles \in SUBSET {InitHostRole} :
         member_roles = [u \in DiscordUsers |-> IF u = 1 THEN {ORGANIZER_ID} ELSE host_roles]
    /\ now = 0

\* The channel administration commands on bot-controlled, half-built and
\* external channels.
SpecClassify == InitClassify /\ [][NextCommands]_vars

\* Two series: the resources of S1 exist and are bound, S2 has none yet.
InitAggregate ==
    /\ event_series = Series
    /\ InitEvents
    /\ Bindings({InitChannel, InitRole, InitHostRole}, {InitChannel, InitRole, InitHostRole})
    /\ InitLinked /\ InitAdminStoreEmpty /\ InitMembers /\ InitThreads
    /\ now = 0

\* The series' resources exist and are bound; the recurring sweep task is due.
InitSchedule ==
    /\ event_series = {"S1"}
    /\ InitEvents
    /\ Bindings({InitChannel, InitRole, InitHostRole}, {InitChannel, InitRole, InitHostRole})
    /\ InitLinked /\ InitAdminStoreEmpty /\ InitMembers
    /\ proc = [p \in Procs |-> ProcIdle]
    /\ handler = [h \in Handlers |-> HandlerIdle]
    /\ before_link = NoLink
    /\ stopped = FALSE
    /\ future_spawner = 0
    /\ task_scheduler = <<Task("create_sync_discord_task", TRUE, 0)>>
    /\ now = 0

NextSchedule ==
    \/ Tick
    \/ \E h \in Admins : message_sync_discord_mention(h)
    \/ \E p \in Sweepers :
        \/ run_sync_discord_task(p)
        \/ sync_discord_task_return(p)
        \/ sync_discord_loop(p)
        \/ sync_event_series(p)
        \/ sync_channel(p)
        \/ sync_channel_impl(p)
        \/ sync_channel_exists(p)
        \/ sync_role(p)
        \/ sync_role_impl(p)
        \/ sync_role_exists(p)
        \/ sync_channel_permissions(p)
        \/ sync_user_role_assignments(p)
        \/ assign_role(p)
        \/ sync_game_master_role(p)
        \/ sync_channel_topic_and_category(p)
        \/ series_done(p)

\* The scheduler with the recurring sweep task and the one-shot sweep tasks of
\* the command "sync discord".
SpecSchedule == InitSchedule /\ [][NextSchedule]_vars

\* The event names tried: every string of at most MaxLen of these characters
EventNames == UNION {[1..n -> {"a", " ", "["}] : n \in 0..MaxLen}

\* A series with no bindings whose one event is upcoming and has any of the names.
InitFresh ==
    /\ event_series = {"S1"}
    /\ series_meetup_events = [s \in Series |-> IF s = "S1" THEN {"E1"} ELSE {}]
    /\ series_type = [s \in Series |-> Some("campaign")]
    /\ \E event_name \in EventNames :
         meetup_event = [e \in Events |->
                           [time |-> to_rfc3339(2), name |-> event_name, link |-> "L1"]]
    /\ meetup_event_meetup_users = [e \in Events |-> {1, 2}]
    /\ meetup_event_meetup_hosts = [e \in Events |-> {1}]
    /\ InitChannelStoreEmpty /\ InitRoleStoreEmpty /\ InitGuildEmpty
    /\ InitLinked /\ InitAdminStoreEmpty /\ InitMembers /\ InitThreads
    /\ now = 0

NextFresh ==
    \E p \in Sweepers :
        \/ sync_discord(p)
        \/ sync_discord_loop(p)
        \/ sync_event_series(p)
        \/ sync_channel(p)
        \/ sync_channel_impl(p)
        \/ create_channel(p)
        \/ bind_channel(p)
        \/ delete_temp_channel(p)
        \/ orphan_channel(p)
        \/ sync_channel_exists(p)
        \/ sync_role(p)
        \/ sync_role_impl(p)
        \/ create_role(p)
        \/ bind_role(p)
        \/ delete_temp_role(p)
        \/ orphan_role(p)
        \/ sync_role_exists(p)
        \/ sync_channel_permissions(p)
        \/ sync_user_role_assignments(p)
        \/ assign_role(p)
        \/ sync_game_master_role(p)
        \/ sync_channel_topic_and_category(p)
        \/ series_done(p)

\* The first sweep of a new series.
SpecFresh == InitFresh /\ [][NextFresh]_vars

\* One sweep over two series.
SpecAggregate == InitAggregate /\ [][NextFresh]_vars

\* The series S1 has all three events, two of them upcoming, and any type or
\* none; Meetup user 3, who is not linked, is among the RSVPs and the hosts;
\* user 1 may have been removed from the channel by hand.
InitSeries ==
    /\ event_series = {"S1"}
    /\ series_meetup_events = [s \in Series |-> IF s = "S1" THEN Events ELSE {}]
    /\ \E type \in {None, Some("campaign"), Some("adventure"), Some("tournament")} :
         series_type = [s \in Series |-> type]
    /\ meetup_event =
         [e \in Events |->
            IF e = "E1"
            THEN [time |-> to_rfc3339(2), name |-> <<"a", "b", " ", "[">>, link |-> "L1"]
            ELSE IF e = "E2" THEN [time |-> NotATime, name |-> <<"a", "b">>, link |-> "L2"]
            ELSE [time |-> to_rfc3339(1), name |-> <<" ", "c", "d", "(">>, link |-> "L3"]]
    /\ meetup_event_meetup_users = [e \in Events |-> IF e = "E3" THEN {2, 3} ELSE {1, 2}]
    /\ meetup_event_meetup_hosts = [e \in Events |-> {1, 3}]
    /\ Bindings({InitChannel, InitRole, InitHostRole}, {InitChannel, InitRole, InitHostRole})
    /\ InitLinked /\ InitMembers /\ InitThreads
    /\ \E removed \in SUBSET {1} :
         removed_users = [c \in Ids |-> IF c = InitChannel THEN removed ELSE {}]
    /\ removed_hosts = [c \in Ids |-> {}]
    /\ expiration_time = [c \in Ids |-> None]
    /\ deletion_time = [c \in Ids |-> None]
    /\ now = 0

NextSeries ==
    \/ Tick
    \/ \E p \in Sweepers :
        \/ sync_discord(p)
        \/ sync_discord_loop(p)
        \/ sync_event_series(p)
        \/ sync_channel(p)
        \/ sync_channel_impl(p)
        \/ sync_channel_exists(p)
        \/ sync_role(p)
        \/ sync_role_impl(p)
        \/ sync_role_exists(p)
        \/ sync_channel_permissions(p)
        \/ sync_user_role_assignments(p)
        \/ assign_role(p)
        \/ sync_game_master_role(p)
        \/ sync_channel_topic_and_category(p)
        \/ series_done(p)

\* The sweep of a series whose resources exist, while time passes.
SpecSeries == InitSeries /\ [][NextSeries]_vars

\* The Store as a sweep that returned success left it, or before the first
\* sweep: series S1 has its channel with both role bindings, or nothing.  The
\* two roles, or the channel and the two roles, may have been deleted on
\* Discord since.  The sweep thread calls sync_channel and then sync_role.
InitBuild ==
    /\ event_series = {"S1"}
    /\ InitEvents
    /\ \E bound \in {{}, {InitChannel, InitRole, InitHostRole}},
          live \in {{}, {InitChannel}, {InitChannel, InitRole, InitHostRole}} :
         /\ live \subseteq bound
         /\ Bindings(bound, live)
         \* a bound channel has been administered before: one user and one
         \* host were removed from it by command
         /\ removed_users = [c \in Ids |-> IF c = InitChannel /\ c \in bound THEN {2} ELSE {}]
         /\ removed_hosts = [c \in Ids |-> IF c = InitChannel /\ c \in bound THEN {1} ELSE {}]
    /\ expiration_time = [c \in Ids |-> None]
    /\ deletion_time = [c \in Ids |-> None]
    /\ InitLinked /\ InitMembers
    /\ now = 0
    /\ proc = [p \in Procs |-> IF p \in Sweepers
                                THEN [ProcIdle EXCEPT !.pc = "sync_channel",
                                                      !.series_id = "S1",
                                                      !.series_name = <<"a", "b">>]
                                ELSE ProcIdle]
    /\ handler = [h \in Handlers |-> HandlerIdle]
    /\ before_link = NoLink
    /\ InitTasks

NextBuild ==
    \/ \E p \in Sweepers :
        \/ sync_channel(p)
        \/ sync_channel_impl(p)
        \/ create_channel(p)
        \/ bind_channel(p)
        \/ delete_temp_channel(p)
        \/ orphan_channel(p)
        \/ sync_channel_exists(p)
        \/ repair_channel(p)
        \/ sync_role(p)
        \/ sync_role_impl(p)
        \/ create_role(p)
        \/ bind_role(p)
        \/ delete_temp_role(p)
        \/ orphan_role(p)
        \/ sync_role_exists(p)
        \/ repair_role(p)
    \/ \E h \in Admins :
        \/ channel_add_or_remove_user(h)
        \/ remember_removed(h)
        \/ close_channel(h)
        \/ close_channel_set(h)

\* The channel and role steps of a series sync next to the handler thread
\* serving the channel administration commands.
SpecBuild == InitBuild /\ [][NextBuild]_vars

\* The scheduler runs the recurring task once more ("Retry in a minute" / "Do
\* another sync in 15 minutes"): the sweep after the sweeps of sync_discord.
sync_discord_again(p) ==
    /\ proc[p].pc = "idle"
    /\ proc[p].num_sweeps = MaxSweeps
    /\ \E redis_ok \in BOOLEAN : proc' = sync_discord_call(p, redis_ok)
    /\ UNCHANGED <<store_vars, guild_vars, member_roles, now, handler, before_link, task_vars>>

\* A new series with two upcoming events (E3 before E1) and an event whose
\* time does not parse; no channel and no role yet.
InitAgain ==
    /\ event_series = {"S1"}
    /\ series_meetup_events = [s \in Series |-> IF s = "S1" THEN Events ELSE {}]
    /\ series_type = [s \in Series |-> Some("campaign")]
    /\ meetup_event =
         [e \in Events |->
            IF e = "E1"
            THEN [time |-> to_rfc3339(2), name |-> <<"a", "b", " ", "[">>, link |-> "L1"]
            ELSE IF e = "E2" THEN [time |-> NotATime, name |-> <<"a", "b">>, link |-> "L2"]
            ELSE [time |-> to_rfc3339(1), name |-> <<" ", "c", "d", "(">>, link |-> "L3"]]
    /\ meetup_event_meetup_users = [e \in Events |-> IF e = "E3" THEN {2, 3} ELSE {1, 2}]
    /\ meetup_event_meetup_hosts = [e \in Events |-> {1, 3}]
    /\ InitChannelStoreEmpty /\ InitRoleStoreEmpty /\ InitGuildEmpty
    /\ InitLinked /\ InitAdminStoreEmpty /\ InitMembers /\ InitThreads
    /\ now = 0

NextAgain ==
    \/ Tick
    \/ NextFresh
    \/ \E p \in Sweepers : sync_discord_again(p)

\* The recurring sweep of a new series while time passes: the sweep that
\* creates the channel and the roles, and the sweep after it.
SpecAgain == InitAgain /\ [][NextAgain]_vars

\* ================================================================= claims
\* Ids bound to the channel slot of series s, by either key
BoundChannels(s) ==
    event_series_discord_channel[s]
      \cup {c \in Ids : discord_channel_event_series[c] = Some(s)}

\* Ids bound to the user-role (h = FALSE) or host-role (h = TRUE) slot of channel c
BoundRoles(h, c) ==
    discord_channel_discord_role[h][c]
      \cup {r \in Ids : discord_role_discord_channel[h][r] = Some(c)}

\* Every thread has returned from its ensure calls
AllReturned == \A p \in Procs : proc[p].pc \in {"series_done", "sync_channel_permissions"}

\* Thread p called sync_role for slot (h, c)
CalledRole(p, h, c) ==
    proc[p].channel_id = Some(c) /\ (h => proc[p].channel_role_id # None)

C2_LinkMapsInverse ==
    /\ \A d \in DiscordUsers, e \in MeetupIds :
         discord_user_meetup_user[d] = Some(e) <=> meetup_user_discord_user[e] = Some(d)
    /\ \A d1, d2 \in DiscordUsers :
         discord_user_meetup_user[d1] # None
           /\ discord_user_meetup_user[d1] = discord_user_meetup_user[d2] => d1 = d2

\* C2 witness: after a link and an unlink, with all users linked
C2_Witness ==
    /\ before_link.phase = "unlinked"
    /\ \A d \in DiscordUsers : d # before_link.d => discord_user_meetup_user[d] # None

\* C3: series -> channel and channel -> series agree after every transaction of
\* the channel reconciler.
C3_ChannelKeysAgree ==
    \A s \in Series, c \in Ids :
       event_series_discord_channel[s] = Some(c)
         <=> discord_channel_event_series[c] = Some(s)

\* C3 witness: the stale channel was repaired away and a new one is bound
C3_Witness ==
    /\ InitChannel \notin discord_channels
    /\ event_series_discord_channel["S1"] # None
    /\ \E p \in Procs : proc[p].pc = "sync_channel" /\ proc[p].current_num_try = 1

\* C4: channel -> role and role -> channel agree for the user role and for the
\* host role, and the two roles of a channel are distinct.
C4_RoleKeysAgree ==
    /\ \A h \in BOOLEAN, c \in Ids, r \in Ids :
         discord_channel_discord_role[h][c] = Some(r)
           <=> discord_role_discord_channel[h][r] = Some(c)
    /\ \A c \in Ids :
         discord_channel_discord_role[FALSE][c] # None =>
           discord_channel_discord_role[FALSE][c] # discord_channel_discord_role[TRUE][c]

\* C4 witness: a channel with both roles newly bound, after a role repair
C4_Witness ==
    \E c \in Ids :
      /\ discord_channel_discord_role[FALSE][c] # None
      /\ discord_channel_discord_role[TRUE][c] # None
      /\ discord_channel_discord_role[TRUE][c] # Some(InitHostRole)
      /\ discord_role_discord_channel[TRUE][InitHostRole] = None
      /\ InitRole \in discord_roles[FALSE]

\* Every bound id is in its index set
IndexMembership ==
    /\ \A s \in Series : event_series_discord_channel[s] \subseteq discord_channels
    /\ \A h \in BOOLEAN, c \in Ids : discord_channel_discord_role[h][c] \subseteq discord_roles[h]

\* A step that removes a binding removes the id from the index set
RepairUnindexes ==
    /\ \A s \in Series, c \in Ids :
         event_series_discord_channel[s] = Some(c)
           /\ event_series_discord_channel'[s] # Some(c) => c \notin discord_channels'
    /\ \A h \in BOOLEAN, c \in Ids, r \in Ids :
         discord_channel_discord_role[h][c] = Some(r)
           /\ discord_channel_discord_role'[h][c] # Some(r) => r \notin discord_roles'[h]

\* C5: every bound channel, user role and host role is a member of its index
\* set, and a repair removes the id from the index set in the same step that
\* removes the binding.
C5_BoundIdsIndexed == []IndexMembership /\ [][RepairUnindexes]_vars

\* C5 witness: a repair has just removed the stale channel, index entry included
C5_Witness ==
    /\ event_series_discord_channel["S1"] = None
    /\ discord_channels = {}
    /\ \E p \in Procs : proc[p].pc = "sync_channel" /\ proc[p].current_num_try = 1

\* C6 (as claimed): the id a repair found missing is in the orphaned set after
\* the repair.
C6_AsClaimed ==
    [][/\ \A s \in Series, c \in Ids :
            event_series_discord_channel[s] = Some(c)
              /\ event_series_discord_channel'[s] = None
              => c \in orphaned_discord_channels'
       /\ \A h \in BOOLEAN, c \in Ids, r \in Ids :
            discord_channel_discord_role[h][c] = Some(r)
              /\ discord_channel_discord_role'[h][c] = None
              => r \in orphaned_discord_roles']_vars

\* C6 (amended): the id a repair found missing is removed from the slot, from
\* the reverse key and from the index set; the repair leaves both orphaned sets
\* as they were.
C6_RepairDoesNotOrphan ==
    [][/\ \A s \in Series, c \in Ids :
            event_series_discord_channel[s] = Some(c)
              /\ event_series_discord_channel'[s] = None
              => /\ discord_channel_event_series'[c] = None
                 /\ c \notin discord_channels'
                 /\ UNCHANGED <<orphaned_discord_channels, orphaned_discord_roles>>
       /\ \A h \in BOOLEAN, c \in Ids, r \in Ids :
            discord_channel_discord_role[h][c] = Some(r)
              /\ discord_channel_discord_role'[h][c] = None
              => /\ discord_role_discord_channel'[h][r] = None
                 /\ r \notin discord_roles'[h]
                 /\ UNCHANGED <<orphaned_discord_channels, orphaned_discord_roles>>]_vars

\* C6 witness: a repair has removed the stale user role of a live channel
C6_Witness ==
    /\ discord_channel_discord_role[FALSE][InitChannel] = None
    /\ InitRole \notin discord_roles[FALSE]
    /\ InitRole \notin orphaned_discord_roles
    /\ \E p \in Procs : /\ proc[p].pc = "sync_role"
                        /\ proc[p].current_num_try = 1
                        /\ ~proc[p].is_host_role
                        /\ proc[p].channel_id = Some(InitChannel)

\* The step is one of sweep thread p
SweeperStep(p) == proc'[p] # proc[p]

\* C7: once remove(user, as_host = false) has completed on a channel (the user
\* is in the channel's removed_users), a sweep that reads the removal sets
\* afterwards adds neither the channel's user role nor its host role to that
\* user, although the user is among the mapped RSVPs and hosts of the series.
C7_RemovedUserNotReadded ==
    [][\A p \in Sweepers, u \in DiscordUsers :
          /\ proc[p].pc = "assign_role"
          /\ SweeperStep(p)
          /\ u \in proc[p].removed_users_read
          => member_roles'[u] = member_roles[u]]_vars

\* C7 witness: the host pass of a sweep has had its turn for user 1, a mapped
\* host who was removed as a user (not as a host) before the pass read the
\* removal sets, and user 1 holds neither role of the channel.
C7_Witness ==
    \E p \in Sweepers :
      /\ proc[p].pc = "assign_role"
      /\ proc[p].is_host_role
      /\ 1 \in proc[p].removed_users_read
      /\ 1 \notin proc[p].discord_user_ids
      /\ 1 \notin removed_hosts[InitChannel]
      /\ 1 \in UNION {meetup_user_discord_user[m] : m \in meetup_event_meetup_hosts["E1"]}
      /\ member_roles[1] \cap {InitRole, InitHostRole} = {}

\* The four canonical overwrites are among those of channel c, for the roles
\* bound to c
HasCanonicalOverwrites(c) ==
    /\ [kind |-> "Role", id |-> GUILD_ID, allow |-> {}, deny |-> {"READ_MESSAGES"}]
         \in permission_overwrites[c]
    /\ [kind |-> "Member", id |-> bot_id, allow |-> {"READ_MESSAGES"}, deny |-> {}]
         \in permission_overwrites[c]
    /\ \E r \in discord_channel_discord_role[FALSE][c] :
         [kind |-> "Role", id |-> r,
          allow |-> {"READ_MESSAGES", "MENTION_EVERYONE"}, deny |-> {}]
           \in permission_overwrites[c]
    /\ \E r \in discord_channel_discord_role[TRUE][c] :
         [kind |-> "Role", id |-> r,
          allow |-> {"READ_MESSAGES", "MENTION_EVERYONE", "MANAGE_MESSAGES"},
          deny |-> {}]
           \in permission_overwrites[c]

\* C8: after a series sync that returns success, the overwrites of the series'
\* channel include the four canonical entries: @everyone denies read, the bot
\* member allows read, the user role allows read and mention-everyone, the host
\* role allows read, mention-everyone and manage-messages.  (A series that is
\* skipped for want of an upcoming event is not synced and has obtained no
\* channel.)
C8_SyncedChannelHasOverwrites ==
    \A p \in Sweepers :
       proc[p].pc = "series_done" /\ proc[p].result = "Ok" /\ proc[p].channel_id # None =>
         /\ proc[p].channel_id = event_series_discord_channel[proc[p].series_id]
         /\ HasCanonicalOverwrites(Unwrap(proc[p].channel_id))

\* C8 witness: a series sync has returned success for a channel and two roles
\* it created itself.
C8_Witness ==
    \E p \in Sweepers :
      /\ proc[p].pc = "series_done"
      /\ proc[p].result = "Ok"
      /\ \E c \in proc[p].channel_id :
           /\ c >= FirstId
           /\ \A h \in BOOLEAN : \E r \in discord_channel_discord_role[h][c] : r >= FirstId

\* deletion_time of channel c is set, and no close_channel invocation that read
\* something else is still on its way to write
Settled(c) ==
    /\ deletion_time[c] # None
    /\ \A h \in Handlers :
         handler[h].pc = "close_channel_set" /\ handler[h].channel_id = c =>
           handler[h].current_deletion_time = parse_from_rfc3339(deletion_time[c]).time

\* C9: close_channel is idempotent: once an invocation has set deletion_time for
\* a channel (and the invocations that were in flight at that moment are
\* through), any number of further close_channel invocations leave deletion_time
\* at that value.
C9_CloseIsIdempotent ==
    [][\A c \in Ids :
          Settled(c) => deletion_time'[c] = deletion_time[c] /\ Settled(c)']_vars

\* C9 witness: a further invocation, at a later time, found the channel marked
\* and left deletion_time at the value the first invocation set.
C9_Witness ==
    /\ \E h \in Handlers : handler[h].reply = "CHANNEL_ALREADY_MARKED_FOR_CLOSING"
    /\ \A h \in Handlers : handler[h].pc = "idle"
    /\ deletion_time[InitChannel] # None
    /\ \E t \in parse_from_rfc3339(deletion_time[InitChannel]).time : t < now

\* C10 (as claimed): link(d, e) followed by unlink(d) leaves the Store as it was
\* before the link, the sets meetup_users and discord_users included.
C10_AsClaimed == before_link.phase = "unlinked" => link_vars = before_link.store

\* C10 (amended): link(d, e) followed by unlink(d) leaves both direction maps as
\* they were before the link; meetup_users keeps e and discord_users keeps d.
C10_RoundTripRestoresMaps ==
    before_link.phase = "unlinked" =>
      /\ discord_user_meetup_user = before_link.store[1]
      /\ meetup_user_discord_user = before_link.store[2]
      /\ meetup_users = before_link.store[3] \cup {before_link.e}
      /\ discord_users = before_link.store[4] \cup {before_link.d}

\* C10 witness: a link of a pair unknown to the global sets, then its unlink
C10_Witness ==
    /\ before_link.phase = "unlinked"
    /\ before_link.e \notin before_link.store[3]
    /\ before_link.d \notin before_link.store[4]
    /\ before_link.store[3] # {}

\* The handlers that have sent their last message with one of these texts
Replied(msgs) == {h \in Handlers : handler[h].pc = "idle" /\ handler[h].reply \in msgs}

\* Both racing link commands are over and neither ended for another reason
\* than the race: a failed call, an author who is no organiser, a missing profile.
RaceOver ==
    /\ \A h \in Handlers : handler[h].pc = "idle" /\ handler[h].reply # ""
    /\ Replied({"UNSPECIFIED_ERROR", "NOT_AN_ORGANISER",
                "this Meetup profile does not exist"}) = {}

\* The replies of a link command that lost: already linked, or the race conflict
LostReplies == {"already linked", "already linked to a different Meetup account",
                "Could not assign meetup id (timing error)"}

\* The two maps hold the one binding d -> e and nothing else
OnlyBinding(d, e) ==
    /\ discord_user_meetup_user =
         [u \in DiscordUsers |-> IF u = d THEN Some(e) ELSE None]
    /\ meetup_user_discord_user =
         [m \in MeetupIds |-> IF m = e THEN Some(d) ELSE None]

\* Once both commands are over, one has committed and the other has lost
RaceHasOneWinner ==
    RaceOver =>
      /\ Cardinality(Replied({"Linked Meetup account"})) = 1
      /\ Cardinality(Replied(LostReplies)) = 1
      /\ before_link.phase = "linked"
      /\ OnlyBinding(before_link.d, before_link.e)

\* A command that ends with one of the losing replies has written nothing
LoserWritesNothing ==
    \A h \in Handlers :
       handler[h].pc # "idle" /\ handler'[h].pc = "idle" /\ handler'[h].reply \in LostReplies
         => UNCHANGED link_vars

\* C11: of two concurrent link commands for the same Discord user and different
\* Meetup ids, exactly one commits its binding; the other replies that the user
\* is already linked or that the id could not be assigned (timing error) and
\* writes nothing; afterwards the two maps hold that one binding, in both
\* directions.  (Commands that end with a failed call, a rejected author or a
\* missing profile are left aside.)
C11_RaceHasOneWinner == []RaceHasOneWinner /\ [][LoserWritesNothing]_vars

C11_Witness ==
    /\ RaceOver
    /\ Replied({"Could not assign meetup id (timing error)"}) # {}
    /\ Replied({"Linked Meetup account"}) # {}

\* The channel recorded for S1 before the sweep does not exist on Discord
StaleChannel == resource_name[InitChannel] # <<>> /\ InitChannel \notin guild_channels

\* The stale id is gone from the Store and a channel created since is bound
Rebound(s, c) ==
    /\ c >= FirstId
    /\ c \in guild_channels
    /\ event_series_discord_channel[s] = Some(c)
    /\ discord_channel_event_series[c] = Some(s)
    /\ c \in discord_channels
    /\ InitChannel \notin discord_channels
    /\ discord_channel_event_series[InitChannel] = None

\* C12: when the channel slot of a series with an upcoming event holds an id that
\* does not exist on Discord, a sweep whose sync of the series succeeds leaves
\* the slot bound to a newly created, existing channel, and the stale id is
\* neither the slot's value nor in discord_channels nor the owner of a reverse
\* key; the one retry of sync_channel is enough for this, the sweep never gives
\* up for having reached the retry limit.
C12_StaleChannelRepaired ==
    \A p \in Sweepers :
       /\ proc[p].pc = "series_done" /\ proc[p].result = "Ok" /\ proc[p].channel_id # None
             /\ StaleChannel
            => Rebound(proc[p].series_id, Unwrap(proc[p].channel_id))
       /\ proc[p].pc = "sync_channel" => proc[p].current_num_try <= max_retries

C12_Witness ==
    \E p \in Sweepers :
       /\ proc[p].pc = "series_done" /\ proc[p].result = "Ok" /\ StaleChannel
       /\ proc[p].channel_id = Some(FirstId)
       /\ event_series_discord_channel["S1"] = Some(FirstId)

\* No event of series s has a time that parses and lies strictly in the future
NoUpcoming(s) ==
    \A e \in series_meetup_events[s] :
       \/ ~meetup_event[e].time.rfc3339
       \/ meetup_event[e].time.time <= now

\* C13: a series none of whose events has a time that parses and lies strictly in
\* the future is skipped by the sweep: the sync of the series ends at once, no
\* Store key changes, nothing changes on Discord (no channel, no role, no
\* overwrite, no membership), and the series is not counted as failed, unless
\* the read of the series' event ids itself failed.
C13_NoUpcomingIsSkipped ==
    [][\A p \in Sweepers :
          proc[p].pc = "sync_event_series" /\ SweeperStep(p) /\ NoUpcoming(proc[p].series_id)
            => /\ UNCHANGED <<store_vars, guild_vars, member_roles>>
               /\ proc'[p].pc = "series_done"
               /\ proc'[p].channel_id = None
               /\ proc'[p].result = "Ok" \/ pick_next_event(p, FALSE)]_vars

C13_Witness ==
    \E p \in Sweepers :
       /\ proc[p].pc = "series_done" /\ proc[p].result = "Ok"
       /\ proc[p].channel_id = None
       /\ NoUpcoming(proc[p].series_id)
       /\ now = 2
       /\ guild_channels = {} /\ event_series_discord_channel["S1"] = None

\* The channel's expiration_time is set, is a time, and lies in the future
ExpiresLater(c) ==
    \E stored \in expiration_time[c] : stored.rfc3339 /\ stored.time > now

\* The replies with which close_channel turns a command down before it has
\* looked at the expiration time
TurnedDown == {"UNSPECIFIED_ERROR", "CHANNEL_NOT_BOT_CONTROLLED", "NOT_A_CHANNEL_ADMIN"}

\* C14: while the channel's expiration_time is set and lies in the future, a
\* close command never gets as far as writing deletion_time: the command ends
\* in the step that read the expiration time, deletion_time is unchanged, and
\* the reply is CHANNEL_NOT_YET_CLOSEABLE unless the command was turned down
\* already (failed call, channel not bot-controlled, author no channel admin);
\* and CHANNEL_NOT_YET_CLOSEABLE is only ever the reply in that situation.
C14_NotYetCloseable ==
    [][\A h \in Handlers :
          handler[h].pc = "idle" /\ handler'[h] # handler[h] =>
            /\ ExpiresLater(InitChannel) =>
                  /\ handler'[h].pc = "idle"
                  /\ handler'[h].reply \in TurnedDown \cup {"CHANNEL_NOT_YET_CLOSEABLE"}
                  /\ deletion_time' = deletion_time
            /\ handler'[h].reply = "CHANNEL_NOT_YET_CLOSEABLE" => ExpiresLater(InitChannel)]_vars

C14_Witness ==
    /\ ExpiresLater(InitChannel)
    /\ \E h \in Handlers : handler[h].reply = "CHANNEL_NOT_YET_CLOSEABLE"
    /\ deletion_time[InitChannel] = None

\* author holds the organiser role or the host role recorded for channel c
Authorised(author, c) ==
    \/ ORGANIZER_ID \in member_roles[author]
    \/ \E host_role \in discord_channel_discord_role[TRUE][c] :
          host_role \in member_roles[author]

\* C15: an add, remove or close command whose author holds neither the
\* organiser role nor the channel's host role has no effect: no member gains or
\* loses a role, removed_users, removed_hosts and deletion_time stay as they
\* are, and the command is over with that step, so that its later steps (the
\* SADD to a removal set, the SET of deletion_time) never happen.
C15_AdminCommandsNeedAdmin ==
    [][\A h \in Admins, author \in DiscordUsers, c \in guild_channels :
          /\ handler[h].pc = "idle"
          /\ ~Authorised(author, c)
          /\ \/ channel_add_or_remove_user_msg(h, author, c)
             \/ close_channel_msg(h, author, c)
          => /\ UNCHANGED <<member_roles, removed_users, removed_hosts, deletion_time>>
             /\ handler'[h].pc = "idle"
             /\ handler'[h].reply \in {"NOT_A_CHANNEL_ADMIN", "UNSPECIFIED_ERROR"}]_vars

C15_Witness ==
    /\ ~Authorised(2, InitChannel)
    /\ removed_hosts[InitChannel] = {2}
    /\ \E h \in Admins : handler[h].pc = "idle" /\ handler[h].reply = "NOT_A_CHANNEL_ADMIN"

\* C16: the command "unlink meetup <@user>" is for organisers only: written by
\* an author who does not hold the organiser role, it leaves both direction
\* keys of the mentioned user's link unchanged.
C16_AsClaimed ==
    [][\A h \in Handlers, author \in DiscordUsers, mention \in DiscordUsers :
          /\ handler[h].pc = "idle"
          /\ ORGANIZER_ID \notin member_roles[author]
          /\ message_unlink_meetup(h, author, mention, TRUE)
          => UNCHANGED <<discord_user_meetup_user, meetup_user_discord_user>>]_vars

\* C17: direct link, sync meetup, sync discord, remind expiration and stop take
\* effect only for an organiser: written by an author who does not hold the
\* organiser role, the command writes no identity link, puts no task in the
\* executor's queue or in the scheduler, does not stop the process, and is
\* over with the reply NOT_AN_ORGANISER.
C17_OrganiserCommandsNeedOrganiser ==
    [][\A h \in Handlers, author \in DiscordUsers :
          /\ handler[h].pc = "idle"
          /\ ORGANIZER_ID \notin member_roles[author]
          /\ \/ \E discord_id \in DiscordUsers, meetup_id \in MeetupIds :
                  link_meetup_organizer(h, author, discord_id, meetup_id)
             \/ sync_meetup_mention(h, author)
             \/ sync_discord_mention(h, author)
             \/ send_expiration_reminder_organizer_mention(h, author)
             \/ stop_organizer(h, author)
          => /\ UNCHANGED <<link_vars, task_vars>>
             /\ handler'[h].pc = "idle"
             /\ handler'[h].reply = "NOT_AN_ORGANISER"]_vars

C17_Witness ==
    /\ handler[1].pc = "idle" /\ handler[1].reply = "NOT_AN_ORGANISER"
    /\ stopped
    /\ future_spawner = 1
    /\ task_scheduler = <<OneShot("create_end_of_game_task", 0),
                          OneShot("create_sync_discord_task", 0)>>
    /\ discord_user_meetup_user[2] = Some(1)

\* The text before the first '[' or '(' with trailing whitespace removed
TextBeforeBracket(N) ==
    LET brackets == {i \in 1..Len(N) : N[i] \in {"[", "("}}
        b == IF brackets = {} THEN Len(N) + 1
             ELSE CHOOSE i \in brackets : \A j \in brackets : i <= j
        l == CHOOSE k \in 0..(b - 1) :
               /\ k = 0 \/ N[k] # " "
               /\ \A j \in (k + 1)..(b - 1) : N[j] = " "
    IN  SubSeq(N, 1, l)

\* The same text without its leading whitespace, of which one character stays
\* when a single other character follows it
TextBeforeBracketTrimmed(N) ==
    LET t == TextBeforeBracket(N)
        w == CHOOSE k \in 0..Len(t) :
               /\ \A j \in 1..k : t[j] = " "
               /\ k = Len(t) \/ t[k + 1] # " "
        from == IF Len(t) - w >= 2 \/ w = 0 THEN w + 1 ELSE w
    IN  SubSeq(t, from, Len(t))

\* What a successful sweep of S1 leaves: a channel and its two roles, all
\* bound, the roles named after series_name, the topic made of the link; no
\* sweep so far has created more than one channel and two roles, which for
\* the first sweep makes the guild hold exactly these three
FreshSeriesSynced(p, series_name) ==
    \E c \in guild_channels, r \in guild_roles, hr \in guild_roles :
       /\ r # hr
       /\ Cardinality(guild_channels) <= proc[p].num_sweeps
       /\ Cardinality(guild_roles) <= 2 * proc[p].num_sweeps
       /\ proc[p].channel_id = Some(c)
       /\ event_series_discord_channel["S1"] = Some(c)
       /\ discord_channel_discord_role[FALSE][c] = Some(r)
       /\ discord_channel_discord_role[TRUE][c] = Some(hr)
       /\ resource_name[r] = series_name
       /\ resource_name[hr] = <<"[", "H", "o", "s", "t", "]", " ">> \o series_name
       /\ channel_topic[c] = Some(<<"Next session: ", meetup_event["E1"].link>>)

\* A sweep thread has synced S1 successfully
SyncedOk(p) ==
    proc[p].pc = "series_done" /\ proc[p].result = "Ok" /\ proc[p].channel_id # None

\* C18 as stated: for a series with no bindings and one upcoming event named N
\* with link L, a successful sweep creates and binds exactly one channel, one
\* user role named with the text of N before the first '[' or '(' with trailing
\* whitespace removed, one host role named "[Host] " and that text, and sets
\* the topic to "Next session: " and L.
C18_AsClaimed ==
    \A p \in Sweepers :
       SyncedOk(p) => FreshSeriesSynced(p, TextBeforeBracket(meetup_event["E1"].name))

\* C18, amended: the same, with the series name being that text without its
\* leading whitespace as well (one whitespace character stays when only one
\* other character follows); the sweep of a fresh series never repairs.
C18_FreshSeriesSynced ==
    \A p \in Sweepers :
       /\ SyncedOk(p) =>
            FreshSeriesSynced(p, TextBeforeBracketTrimmed(meetup_event["E1"].name))
       /\ proc[p].pc \notin {"repair_channel", "repair_role"}

C18_Witness ==
    \E p \in Sweepers :
       /\ SyncedOk(p)
       /\ meetup_event["E1"].name = <<" ", "a", "a", "[">>
       /\ \E r \in guild_roles : resource_name[r] = <<"a", "a">>

\* A sweep thread is deleting id, the temporary resource it created in this call
DeletingTemp(pc, id) == \E p \in Procs : proc[p].pc = pc /\ proc[p].temp = Some(id)

\* id is the value of a channel slot / of a role slot
IsBoundChannel(id) == \E s \in Series : event_series_discord_channel[s] = Some(id)
IsBoundRole(id) ==
    \E h \in BOOLEAN, c \in Ids : discord_channel_discord_role[h][c] = Some(id)

\* C19: the engine never destroys a channel or role that is bound in the Store:
\* whenever a channel or a role disappears from Discord by a step of the
\* engine, it is the temporary resource of the ensure call that takes the
\* step, and it is not the value of any slot.
C19_OnlyUnboundTempsDeleted ==
    [][\A id \in Ids :
          /\ id \in guild_channels /\ id \notin guild_channels'
               => DeletingTemp("delete_temp_channel", id) /\ ~IsBoundChannel(id)
          /\ id \in guild_roles /\ id \notin guild_roles'
               => DeletingTemp("delete_temp_role", id) /\ ~IsBoundRole(id)]_vars

C19_Witness ==
    /\ \E c \in FirstId..(next_id - 1) : c \notin guild_channels \cup guild_roles
    /\ \E c \in guild_channels : c >= FirstId /\ IsBoundChannel(c)
    /\ \E r \in guild_roles : r >= FirstId /\ IsBoundRole(r)
    /\ \E r \in FirstId..(next_id - 1) :
          r \notin guild_roles /\ resource_name[r] = <<"[", "H", "o", "s", "t", "]", " ", "a", "b">>

\* The times deletion_time of channel c parses to: none or one
MarkedAt(c) == {stored.time : stored \in {d \in deletion_time[c] : d.rfc3339}}

\* Handler h takes up a close command in this step
TakesUpClose(h) == handler[h].pc = "idle" /\ handler'[h] # handler[h]

\* C20 as stated: a close command on a channel whose deletion_time is set to a
\* time greater than or equal to now is refused as already marked and does not
\* go on to write; only an unset deletion_time or one earlier than now lets it
\* set deletion_time to now.
C20_AsClaimed ==
    [][\A h \in Handlers :
          TakesUpClose(h) =>
            /\ (\E t \in MarkedAt(InitChannel) : t >= now)
                  => handler'[h].pc # "close_channel_set"
            /\ handler'[h].reply = "CHANNEL_ALREADY_MARKED_FOR_CLOSING"
                  => \E t \in MarkedAt(InitChannel) : t >= now]_vars

\* C20, amended: a close command on a channel whose deletion_time is set to a
\* time earlier than now never goes on to write, and CHANNEL_ALREADY_MARKED_
\* FOR_CLOSING is the reply in that case only; a command that goes on to write
\* found deletion_time unset or at a time greater than or equal to now, and
\* what it writes is the time at which it read the clock.
C20_EarlierMarkIsKept ==
    [][\A h \in Handlers :
          /\ TakesUpClose(h) =>
               /\ (\E t \in MarkedAt(InitChannel) : t < now) =>
                     /\ handler'[h].pc = "idle"
                     /\ handler'[h].reply \in
                          TurnedDown \cup {"CHANNEL_NOT_YET_CLOSEABLE",
                                           "CHANNEL_ALREADY_MARKED_FOR_CLOSING"}
               /\ handler'[h].reply = "CHANNEL_ALREADY_MARKED_FOR_CLOSING"
                     => \E t \in MarkedAt(InitChannel) : t < now
               /\ handler'[h].pc = "close_channel_set" =>
                     /\ handler'[h].new_deletion_time = now
                     /\ \A t \in MarkedAt(InitChannel) : t >= now
               /\ deletion_time' = deletion_time
          /\ handler[h].pc = "close_channel_set" /\ handler'[h] # handler[h] =>
               \/ deletion_time' = deletion_time
               \/ deletion_time' = [deletion_time EXCEPT ![handler[h].channel_id] =
                                       Some(to_rfc3339(handler[h].new_deletion_time))]]_vars

C20_Witness ==
    /\ now = 1
    /\ deletion_time[InitChannel] = Some(to_rfc3339(0))
    /\ \E h \in Handlers : handler[h].reply = "CHANNEL_ALREADY_MARKED_FOR_CLOSING"

\* The keys discord_role and discord_host_role of channel c that are present
RoleKeysPresent(c) == {h \in BOOLEAN : discord_channel_discord_role[h][c] # None}

\* Handler h serves a channel administration command of author in channel c
AdminCommand(h, author, c) ==
    \/ channel_add_or_remove_user_msg(h, author, c)
    \/ close_channel_msg(h, author, c)

\* C21: a channel administration command classifies its channel from the keys
\* discord_role and discord_host_role. With both absent it changes no role and
\* no Store key and replies that the channel is not bot controlled (or that
\* the Store could not be read); with exactly one present it changes nothing
\* and ends with an error; the reply "not bot controlled" is given to a
\* channel with both keys absent only, so a channel with both is taken further.
C21_ChannelClassifiedByRoleKeys ==
    [][\A h \in Handlers, author \in DiscordUsers, c \in guild_channels :
          handler[h].pc = "idle" /\ AdminCommand(h, author, c) =>
            /\ RoleKeysPresent(c) = {} =>
                  /\ UNCHANGED <<store_vars, member_roles>>
                  /\ handler'[h].pc = "idle"
                  /\ handler'[h].reply \in {"CHANNEL_NOT_BOT_CONTROLLED", "UNSPECIFIED_ERROR"}
            /\ Cardinality(RoleKeysPresent(c)) = 1 =>
                  /\ UNCHANGED <<store_vars, member_roles>>
                  /\ handler'[h].pc = "idle"
                  /\ handler'[h].reply = "UNSPECIFIED_ERROR"
            /\ RoleKeysPresent(c) = BOOLEAN =>
                  handler'[h].reply # "CHANNEL_NOT_BOT_CONTROLLED"]_vars

C21_Witness ==
    /\ Cardinality(RoleKeysPresent(InitChannel)) = 1
    /\ \E h \in Handlers : handler[h].pc = "idle" /\ handler[h].reply = "UNSPECIFIED_ERROR"

\* The roles of a channel both of whose role keys are present
ChannelRoles(c) == [user |-> Unwrap(discord_channel_discord_role[FALSE][c]),
                    host |-> Unwrap(discord_channel_discord_role[TRUE][c])]

\* Set S with x added to the members of channel c
WithRemoved(S, c, x) == [S EXCEPT ![c] = @ \cup {x}]

\* C22: an authorised remove of user d goes on to the record of the removal
\* whether or not the calls that remove the host role and the user role
\* succeed; the record, unless the Store write fails, adds d to removed_hosts
\* and leaves removed_users alone when as_host is true, and adds d to
\* removed_users and leaves removed_hosts alone when as_host is false.
C22_RemovalRecorded ==
    [][\A h \in Handlers :
          /\ \A author \in DiscordUsers, c \in guild_channels, d \in DiscordUsers,
                as_host \in BOOLEAN, http_ok1 \in BOOLEAN, http_ok2 \in BOOLEAN :
                /\ handler[h].pc = "idle"
                /\ handler'[h] # handler[h]
                /\ handler'[h].reply \in {"", "CHANNEL_ROLE_REMOVE_ERROR"}
                /\ RoleKeysPresent(c) = BOOLEAN
                /\ Authorised(author, c)
                /\ member_roles' =
                     remove_member_role(
                        remove_member_role(member_roles, http_ok1, d, ChannelRoles(c).host),
                        ~as_host /\ http_ok2, d, ChannelRoles(c).user)
                /\ channel_add_or_remove_user_msg(h, author, c)
                => /\ handler'[h].pc = "remember_removed"
                   /\ handler'[h].channel_id = c
          /\ handler[h].pc = "remember_removed" /\ handler'[h] # handler[h] =>
                LET c == handler[h].channel_id
                    d == handler[h].discord_id
                IN  \/ /\ handler'[h].reply = "UNSPECIFIED_ERROR"
                       /\ UNCHANGED <<removed_hosts, removed_users>>
                    \/ /\ handler'[h].reply = handler[h].reply
                       /\ handler[h].as_host
                       /\ removed_hosts' = WithRemoved(removed_hosts, c, d)
                       /\ UNCHANGED removed_users
                    \/ /\ handler'[h].reply = handler[h].reply
                       /\ ~handler[h].as_host
                       /\ removed_users' = WithRemoved(removed_users, c, d)
                       /\ UNCHANGED removed_hosts]_vars

\* A host role that could not be taken away, and the removal on record
C22_Witness ==
    \E h \in Handlers :
       /\ handler[h].pc = "idle" /\ handler[h].reply = "CHANNEL_ROLE_REMOVE_ERROR"
       /\ removed_hosts[InitChannel] = {2} /\ removed_users[InitChannel] = {}
       /\ InitHostRole \in member_roles[2]

\* The role a pass of role propagation of sweep thread p hands out
PropagatedRole(p) ==
    IF proc[p].is_host_role THEN Unwrap(proc[p].channel_host_role_id)
    ELSE Unwrap(proc[p].channel_role_id)

\* C23: the pass of role propagation for the host role reads as its
\* suppression set the union of the channel's removed_hosts and removed_users,
\* the pass for the user role reads removed_users alone; a pass changes no
\* role of a user in the set it read and adds nothing but its role; and the
\* pass for the user role can give that role to a mapped RSVP who is in
\* removed_hosts only.
C23_SuppressionSets ==
    /\ [][\A p \in Sweepers :
            /\ proc[p].pc = "sync_user_role_assignments" /\ proc'[p].pc = "assign_role" =>
                 LET c == Unwrap(proc[p].channel_id)
                 IN  proc'[p].ignore_discord_user_ids =
                       IF proc[p].is_host_role
                       THEN removed_hosts[c] \cup removed_users[c]
                       ELSE removed_users[c]
            /\ proc[p].pc = "assign_role" /\ SweeperStep(p) =>
                 \A u \in DiscordUsers :
                    /\ u \in proc[p].ignore_discord_user_ids
                         => member_roles'[u] = member_roles[u]
                    /\ member_roles[u] \subseteq member_roles'[u]
                    /\ member_roles'[u] \subseteq member_roles[u] \cup {PropagatedRole(p)}]_vars
    /\ [](\A p \in Sweepers, u \in DiscordUsers :
            /\ proc[p].pc = "assign_role" /\ ~proc[p].is_host_role
            /\ u \in proc[p].discord_user_ids
            /\ u \in removed_hosts[Unwrap(proc[p].channel_id)]
            /\ u \notin proc[p].ignore_discord_user_ids
            /\ PropagatedRole(p) \in guild_roles
            => ENABLED (assign_role(p) /\ PropagatedRole(p) \in member_roles'[u]))

\* The user pass of a sweep has had its turn for user 1, a mapped RSVP removed
\* as a host and not as a user, who holds the user role and not the host role.
C23_Witness ==
    \E p \in Sweepers :
       /\ proc[p].pc = "assign_role" /\ ~proc[p].is_host_role
       /\ 1 \notin proc[p].discord_user_ids
       /\ 1 \in removed_hosts[InitChannel] /\ 1 \notin removed_users[InitChannel]
       /\ 1 \notin proc[p].ignore_discord_user_ids
       /\ 1 \in UNION {meetup_user_discord_user[m] : m \in meetup_event_meetup_users["E1"]}
       /\ InitRole \in member_roles[1] /\ InitHostRole \notin member_roles[1]

\* C24: the manual-removal sets only grow: no step of a sweep and no step of an
\* add or remove command takes an element out of a channel's removed_users or
\* removed_hosts, an add for a user removed before included.
C24_RemovalSetsOnlyGrow ==
    [][\A c \in Ids :
          /\ removed_users[c] \subseteq removed_users'[c]
          /\ removed_hosts[c] \subseteq removed_hosts'[c]]_vars

\* User 2 was removed from the channel, then added again by a command, and a
\* sweep has run its role propagation since: the removal is still on record.
C24_Witness ==
    /\ removed_users[InitChannel] = {2}
    /\ removed_hosts[InitChannel] = {1}
    /\ InitRole \in member_roles[2]
    /\ \E h \in Handlers : handler[h].pc = "idle" /\ handler[h].reply = "Welcome"
    /\ \E p \in Sweepers : proc[p].pc = "series_done" /\ proc[p].result = "Ok"

\* Sweep thread p has returned from a sweep
SweepReturned(p) == proc[p].pc = "idle" /\ proc[p].sweep_result # ""

\* C25 as stated: a sweep that has returned has called the sync of every
\* series in event_series, and it returned failure if and only if the sync of
\* at least one series returned an error.
C25_AsClaimed ==
    \A p \in Sweepers :
       SweepReturned(p) =>
         /\ proc[p].attempted = event_series
         /\ proc[p].sweep_result = "Err" <=> proc[p].failed # {}

\* C25, amended: a sweep whose connection to the Store or whose read of
\* event_series failed returns failure without calling the sync of any series;
\* a sweep that read event_series has, when it returns, called the sync of
\* every series read, those after a failed one included, and returns failure
\* if and only if the sync of at least one series returned an error.
C25_SweepAggregatesFailures ==
    \A p \in Sweepers :
       /\ proc[p].failed \subseteq proc[p].attempted
       /\ SweepReturned(p) =>
            IF proc[p].series_read = None
            THEN proc[p].sweep_result = "Err" /\ proc[p].attempted = {}
            ELSE /\ proc[p].attempted = Unwrap(proc[p].series_read)
                 /\ proc[p].sweep_result = "Err" <=> proc[p].failed # {}

\* The sync of S1 failed, the sync of S2 was called all the same and returned
\* Ok, and the sweep returned failure.
C25_Witness ==
    \E p \in Sweepers :
       /\ SweepReturned(p) /\ proc[p].sweep_result = "Err"
       /\ proc[p].attempted = {"S1", "S2"}
       /\ proc[p].failed = {"S1"}
       /\ event_series_discord_channel["S2"] # None

\* The tasks of the scheduler built with recurring = r
TasksBuilt(r) == {i \in DOMAIN task_scheduler : task_scheduler[i].recurring = r}

\* The scheduler hears back from the sweep task at position i
TaskReturns(i) ==
    /\ i \in DOMAIN task_scheduler
    /\ task_scheduler[i].running
    /\ \/ Len(task_scheduler') < Len(task_scheduler)
       \/ task_scheduler'[i] # task_scheduler[i]

\* C26: when a recurring sweep task returns it stays with the scheduler, due
\* 15 minutes from then after a sweep that succeeded and 1 minute from then
\* after a sweep that failed; when a one-shot sweep task returns it leaves the
\* scheduler after either outcome; a sweep starts for a task that is with the
\* scheduler and due only, so a one-shot task that returned never runs again.
C26_SweepTaskRearms ==
    [][\A p \in Sweepers :
          /\ \A i \in 1..MaxTasks :
                TaskReturns(i) =>
                  /\ proc[p].pc = "idle" /\ proc[p].sweep_result \in {"Ok", "Err"}
                  /\ task_scheduler[i].recurring =>
                        task_scheduler' =
                          [task_scheduler EXCEPT
                             ![i].running = FALSE,
                             ![i].time = IF proc[p].sweep_result = "Ok"
                                         THEN now + 15 ELSE now + 1]
                  /\ ~task_scheduler[i].recurring =>
                        task_scheduler' = Without(task_scheduler, i)
          /\ proc'[p].num_sweeps # proc[p].num_sweeps =>
                \E i \in DOMAIN task_scheduler :
                   /\ ~task_scheduler[i].running /\ task_scheduler[i].time <= now
                   /\ task_scheduler' = [task_scheduler EXCEPT ![i].running = TRUE]
          /\ Cardinality(TasksBuilt(TRUE)) = 1]_vars

\* The recurring task has been re-armed a minute after a sweep that failed
C26_Witness ==
    \E p \in Sweepers, i \in DOMAIN task_scheduler :
       /\ proc[p].pc = "idle" /\ proc[p].sweep_result = "Err" /\ proc[p].failed = {"S1"}
       /\ task_scheduler[i] = Task("create_sync_discord_task", TRUE, now + 1)

\* The step of a series sync a sweep thread with locals pr is in: 0 before the
\* steps, 1 channel, 2 user role, 3 host role, 4 permission overwrites, 5
\* user-role membership, 6 host-role membership, 7 game-master role, 8 topic
\* and category, 9 returned; 10 outside a series sync
StepOf(pr) ==
    IF pr.pc = "sync_event_series" THEN 0
    ELSE IF pr.pc \in {"sync_channel", "sync_channel_impl", "create_channel", "bind_channel",
                       "delete_temp_channel", "orphan_channel", "sync_channel_exists",
                       "repair_channel"} THEN 1
    ELSE IF pr.pc \in {"sync_role", "sync_role_impl", "create_role", "bind_role",
                       "delete_temp_role", "orphan_role", "sync_role_exists",
                       "repair_role"} THEN (IF pr.is_host_role THEN 3 ELSE 2)
    ELSE IF pr.pc = "sync_channel_permissions" THEN 4
    ELSE IF pr.pc \in {"sync_user_role_assignments", "assign_role"}
         THEN (IF pr.is_host_role THEN 6 ELSE 5)
    ELSE IF pr.pc = "sync_game_master_role" THEN 7
    ELSE IF pr.pc = "sync_channel_topic_and_category" THEN 8
    ELSE IF pr.pc = "series_done" THEN 9
    ELSE 10

\* What step k hands to the steps after it, in the locals pr of the thread
OutputOf(k, pr) ==
    /\ k >= 1 => pr.channel_id # None
    /\ k >= 2 => pr.channel_role_id # None
    /\ k >= 3 => /\ pr.channel_host_role_id # None
                 /\ pr.channel_host_role_id # pr.channel_role_id

\* C27: within one series sync the steps run in the order channel, user role,
\* host role, permission overwrites, user-role membership, host-role
\* membership, game-master role, topic and category: a thread in step k stays
\* in it, goes on to step k + 1 with the outputs of the steps so far, or
\* returns, with an error unless it is the last step that ends; after a
\* return the series is not taken up again in the sweep; and channels, roles,
\* overwrites, memberships and topic change in their own steps only.
C27_StepsInOrder ==
    [][\A p \in Sweepers :
          LET k == StepOf(proc[p])
              next == StepOf(proc'[p])
          IN  SweeperStep(p) =>
                /\ k \in 0..8 =>
                      /\ next \in {k, k + 1, 9}
                      /\ next = k + 1 => OutputOf(k, proc'[p])
                      /\ next = 9 /\ k \in 1..7 => proc'[p].result = "Err"
                      /\ proc'[p].series_id = proc[p].series_id
                /\ k = 9 => next = 10
                /\ k = 10 /\ next # 10 =>
                      next = 0 /\ proc'[p].series_id \notin proc[p].attempted
                /\ k # 1 => UNCHANGED <<channel_vars, guild_channels>>
                /\ k \notin {2, 3} => UNCHANGED <<role_vars, guild_roles>>
                /\ k \notin {1, 4} => UNCHANGED permission_overwrites
                /\ k \notin {5, 6, 7} => UNCHANGED member_roles
                /\ k # 8 => UNCHANGED <<channel_topic, channel_category>>]_vars

\* The host-role step failed after the channel and user-role steps created and
\* bound their resources: no overwrite, membership or topic was written.
C27_Witness ==
    \E p \in Sweepers :
       /\ proc[p].pc = "series_done" /\ proc[p].result = "Err"
       /\ proc[p].channel_id # None /\ proc[p].channel_role_id # None
       /\ proc[p].channel_host_role_id = None
       /\ \A c \in guild_channels :
            /\ channel_topic[c] = None
            /\ permission_overwrites[c] = initial_permission_overwrites
       /\ \A u \in DiscordUsers : member_roles[u] \subseteq {ORGANIZER_ID}

\* The Store's channel bindings / role bindings
ChannelBindings ==
    <<event_series_discord_channel, discord_channel_event_series, discord_channels>>
RoleBindings ==
    <<discord_channel_discord_role, discord_role_discord_channel, discord_roles>>

\* C28: a repair transaction that finds in the slot the id it observed to be
\* missing on Discord either fails and changes nothing, or removes exactly
\* that binding: the slot key, the reverse key of that id, and the id from
\* the index set.  One that finds the slot cleared or holding another id
\* changes nothing.  This holds for the channel slot of a series and for
\* either role slot of a channel.
C28_RepairOnlyIfStillCurrent ==
    [][\A p \in Procs :
          /\ proc[p].pc = "repair_channel" /\ SweeperStep(p) =>
                LET s == proc[p].series_id
                    observed == Unwrap(proc[p].channel)
                IN  /\ UNCHANGED RoleBindings
                    /\ \/ UNCHANGED ChannelBindings
                       \/ /\ event_series_discord_channel[s] = Some(observed)
                          /\ event_series_discord_channel' =
                               [event_series_discord_channel EXCEPT ![s] = None]
                          /\ discord_channel_event_series' =
                               [discord_channel_event_series EXCEPT ![observed] = None]
                          /\ discord_channels' = discord_channels \ {observed}
                    /\ UNCHANGED ChannelBindings /\ proc'[p].result # "Err"
                         => event_series_discord_channel[s] # Some(observed)
          /\ proc[p].pc = "repair_role" /\ SweeperStep(p) =>
                LET h == proc[p].is_host_role
                    c == Unwrap(proc[p].channel_id)
                    observed == Unwrap(proc[p].role)
                IN  /\ UNCHANGED ChannelBindings
                    /\ \/ UNCHANGED RoleBindings
                       \/ /\ discord_channel_discord_role[h][c] = Some(observed)
                          /\ discord_channel_discord_role' =
                               [discord_channel_discord_role EXCEPT ![h][c] = None]
                          /\ discord_role_discord_channel' =
                               [discord_role_discord_channel EXCEPT ![h][observed] = None]
                          /\ discord_roles' = [discord_roles EXCEPT ![h] = @ \ {observed}]
                    /\ UNCHANGED RoleBindings /\ proc'[p].result # "Err"
                         => discord_channel_discord_role[h][c] # Some(observed)]_vars

\* A thread is about to commit the repair of the channel it found missing,
\* while another thread has repaired the slot and bound a new channel to it.
C28_Witness ==
    \E p \in Procs, q \in Procs :
       /\ proc[p].pc = "repair_channel" /\ proc[p].channel = Some(InitChannel)
       /\ q # p /\ proc[q].channel_id # None
       /\ event_series_discord_channel["S1"] = proc[q].channel_id
       /\ event_series_discord_channel["S1"] # Some(InitChannel)
       /\ discord_channel_event_series[InitChannel] = None

\* What the bind transaction of thread p returned, as the step leaves it
Returned(pr) == IF pr.pc \in {"delete_temp_channel", "delete_temp_role"} THEN pr.tx
                ELSE IF pr.pc = "sync_channel_exists" THEN pr.channel
                ELSE pr.role

\* C29: a bind transaction that finds an id in the slot changes no binding key
\* and returns that id; one that finds the slot empty either fails and changes
\* nothing, or writes the slot key, the reverse key and the index membership
\* of its temporary id in the one step and returns the temporary id.  This
\* holds for the channel slot of a series and for either role slot of a
\* channel.
C29_BindNeverOverwrites ==
    [][\A p \in Procs :
          /\ proc[p].pc = "bind_channel" /\ SweeperStep(p) =>
                LET s == proc[p].series_id
                    temp == Unwrap(proc[p].temp)
                    slot == event_series_discord_channel[s]
                IN  /\ UNCHANGED RoleBindings
                    /\ slot # None =>
                          /\ UNCHANGED ChannelBindings
                          /\ proc'[p].tx_err \/ Returned(proc'[p]) = slot
                    /\ slot = None =>
                          \/ proc'[p].tx_err /\ UNCHANGED ChannelBindings
                          \/ /\ ~proc'[p].tx_err
                             /\ event_series_discord_channel' =
                                  [event_series_discord_channel EXCEPT ![s] = Some(temp)]
                             /\ discord_channel_event_series' =
                                  [discord_channel_event_series EXCEPT ![temp] = Some(s)]
                             /\ discord_channels' = discord_channels \cup {temp}
                             /\ Returned(proc'[p]) = Some(temp)
          /\ proc[p].pc = "bind_role" /\ SweeperStep(p) =>
                LET h == proc[p].is_host_role
                    c == Unwrap(proc[p].channel_id)
                    temp == Unwrap(proc[p].temp)
                    slot == discord_channel_discord_role[h][c]
                IN  /\ UNCHANGED ChannelBindings
                    /\ slot # None =>
                          /\ UNCHANGED RoleBindings
                          /\ proc'[p].tx_err \/ Returned(proc'[p]) = slot
                    /\ slot = None =>
                          \/ proc'[p].tx_err /\ UNCHANGED RoleBindings
                          \/ /\ ~proc'[p].tx_err
                             /\ discord_channel_discord_role' =
                                  [discord_channel_discord_role EXCEPT ![h][c] = Some(temp)]
                             /\ discord_role_discord_channel' =
                                  [discord_role_discord_channel EXCEPT ![h][temp] = Some(c)]
                             /\ discord_roles' = [discord_roles EXCEPT ![h] = @ \cup {temp}]
                             /\ Returned(proc'[p]) = Some(temp)]_vars

\* A thread's bind found the slot taken by another thread's channel: it holds
\* that id as the transaction's result and has its own temporary channel left.
C29_Witness ==
    \E p \in Procs :
       /\ proc[p].pc = "delete_temp_channel" /\ ~proc[p].tx_err
       /\ proc[p].tx = event_series_discord_channel["S1"]
       /\ proc[p].tx # None /\ proc[p].tx # proc[p].temp
       /\ proc[p].temp \subseteq guild_channels
       /\ discord_channel_event_series[Unwrap(proc[p].temp)] = None

\* Thread p returns from sync_channel_impl / sync_role_impl in this step
ChannelImplReturns(p) ==
    /\ proc[p].pc \in {"bind_channel", "delete_temp_channel", "orphan_channel"}
    /\ proc'[p].pc \in {"sync_channel_exists", "series_done"}
RoleImplReturns(p) ==
    /\ proc[p].pc \in {"bind_role", "delete_temp_role", "orphan_role"}
    /\ proc'[p].pc \in {"sync_role_exists", "series_done"}

\* Exactly one of the three holds
ExactlyOne(A, B, C) == (A /\ ~B /\ ~C) \/ (~A /\ B /\ ~C) \/ (~A /\ ~B /\ C)

\* C30 as stated: when a create-and-bind step returns, the temporary resource
\* it created is in exactly one of three situations: it is the id bound to
\* the slot, it has been deleted on Discord, or it is still there and its id
\* is in orphaned_discord_channels / orphaned_discord_roles.
C30_AsClaimed ==
    [][\A p \in Procs :
          /\ ChannelImplReturns(p) =>
                LET temp == Unwrap(proc[p].temp)
                IN  ExactlyOne(event_series_discord_channel'[proc[p].series_id] = Some(temp),
                               temp \notin guild_channels',
                               temp \in guild_channels'
                                 /\ temp \in orphaned_discord_channels')
          /\ RoleImplReturns(p) =>
                LET temp == Unwrap(proc[p].temp)
                    slot == discord_channel_discord_role'[proc[p].is_host_role]
                                                         [Unwrap(proc[p].channel_id)]
                IN  ExactlyOne(slot = Some(temp),
                               temp \notin guild_roles',
                               temp \in guild_roles' /\ temp \in orphaned_discord_roles')]_vars

\* C30, amended: when a create-and-bind step returns, the temporary resource
\* it created is in exactly one of three situations: it is the id bound to
\* the slot, it has been deleted on Discord, or it is neither and the step
\* returns from its attempt to add the id to orphaned_discord_channels /
\* orphaned_discord_roles, an attempt that adds that id or, failing, nothing.
\* A step whose bind transaction failed ends in the second or third.
C30_TempBoundDeletedOrOrphaned ==
    [][\A p \in Procs :
          /\ ChannelImplReturns(p) =>
                LET temp == Unwrap(proc[p].temp)
                    bound == event_series_discord_channel'[proc[p].series_id] = Some(temp)
                IN  /\ ExactlyOne(bound,
                                  temp \notin guild_channels',
                                  /\ ~bound /\ temp \in guild_channels'
                                  /\ proc[p].pc = "orphan_channel"
                                  /\ orphaned_discord_channels' \in
                                       {orphaned_discord_channels,
                                        orphaned_discord_channels \cup {temp}})
                    /\ proc[p].tx_err => ~bound
          /\ RoleImplReturns(p) =>
                LET temp == Unwrap(proc[p].temp)
                    bound == discord_channel_discord_role'[proc[p].is_host_role]
                                                          [Unwrap(proc[p].channel_id)]
                               = Some(temp)
                IN  /\ ExactlyOne(bound,
                                  temp \notin guild_roles',
                                  /\ ~bound /\ temp \in guild_roles'
                                  /\ proc[p].pc = "orphan_role"
                                  /\ orphaned_discord_roles' \in
                                       {orphaned_discord_roles,
                                        orphaned_discord_roles \cup {temp}})
                    /\ proc[p].tx_err => ~bound]_vars

\* A temporary channel that lost its bind, could not be deleted and is on
\* record as orphaned, and the thread that created it has gone on.
C30_Witness ==
    \E id \in orphaned_discord_channels :
       /\ id \in guild_channels
       /\ discord_channel_event_series[id] = None
       /\ \A p \in Procs : proc[p].temp # Some(id)

\* The create-or-reuse attempts a call of sync_channel / sync_role with locals
\* pr has been through
AttemptsDone(pr) ==
    IF pr.pc \in {"sync_channel", "sync_role"} THEN pr.current_num_try
    ELSE pr.current_num_try - 1

\* How far an attempt has come: the places of one turn of the loop, counted down
PlaceInAttempt(pr) ==
    IF pr.pc \in {"sync_channel", "sync_role"} THEN 8
    ELSE IF pr.pc \in {"sync_channel_impl", "sync_role_impl"} THEN 7
    ELSE IF pr.pc \in {"create_channel", "create_role"} THEN 6
    ELSE IF pr.pc \in {"bind_channel", "bind_role"} THEN 5
    ELSE IF pr.pc \in {"delete_temp_channel", "delete_temp_role"} THEN 4
    ELSE IF pr.pc \in {"orphan_channel", "orphan_role"} THEN 3
    ELSE IF pr.pc \in {"sync_channel_exists", "sync_role_exists"} THEN 2
    ELSE 1

\* A number that every step of a call makes smaller
StepsLeft(pr) == (max_retries + 1 - AttemptsDone(pr)) * 9 + PlaceInAttempt(pr)

MappedUsers(host, s) ==
    {d \in DiscordUsers :
       \E e \in series_meetup_events[s] :
          \E m \in (IF host THEN meetup_event_meetup_hosts[e]
                    ELSE meetup_event_meetup_users[e]) :
             meetup_user_discord_user[m] = Some(d)}

\* Member roles with role r given to user u
WithRole(u, r) == [member_roles EXCEPT ![u] = @ \cup {r}]

\* C32: a pass of role propagation takes as its users the chat users that
\* meetup_user:{m}:discord_user maps the RSVPs (for the user role) or the hosts
\* (for the host role) of the series' events to, users without a mapping
\* being left out.  Each of them gets a turn, one turn a step: a user not in
\* the suppression set is given the role when the calls succeed, and can be;
\* a turn that fails changes nothing and neither ends the pass nor makes it
\* return an error; and the pass returns, with success, only when every user
\* has had a turn.
C32_RolePropagation ==
    /\ [][\A p \in Sweepers :
            LET pr == proc[p]
            IN  /\ pr.pc = "sync_user_role_assignments" /\ proc'[p].pc = "assign_role" =>
                     proc'[p].discord_user_ids = MappedUsers(pr.is_host_role, pr.series_id)
                /\ pr.pc = "assign_role" /\ SweeperStep(p) =>
                     \/ /\ pr.discord_user_ids = {}
                        /\ StepOf(proc'[p]) = StepOf(pr) + 1
                        /\ UNCHANGED member_roles
                     \/ \E u \in pr.discord_user_ids :
                          /\ proc'[p] = [pr EXCEPT !.discord_user_ids = @ \ {u}]
                          /\ \/ UNCHANGED member_roles
                             \/ /\ u \notin pr.ignore_discord_user_ids
                                /\ member_roles' = WithRole(u, PropagatedRole(p))]_vars
    /\ [](\A p \in Sweepers, u \in DiscordUsers :
            /\ proc[p].pc = "assign_role"
            /\ u \in proc[p].discord_user_ids
            /\ u \notin proc[p].ignore_discord_user_ids
            /\ PropagatedRole(p) \in guild_roles
            => /\ ENABLED (assign_role(p) /\ member_roles' = WithRole(u, PropagatedRole(p)))
               /\ \A v \in proc[p].discord_user_ids \ {u} :
                    ENABLED (/\ assign_role(p) /\ UNCHANGED member_roles
                             /\ proc'[p].discord_user_ids = proc[p].discord_user_ids \ {v}))

\* The pass for the user role is over: user 2 has been given the role though
\* the turn of user 1 came to nothing, and Meetup user 3 is among the RSVPs.
C32_Witness ==
    \E p \in Sweepers :
       /\ proc[p].pc = "sync_user_role_assignments" /\ proc[p].is_host_role
       /\ removed_users[InitChannel] = {}
       /\ MappedUsers(FALSE, "S1") = {1, 2}
       /\ \E e \in series_meetup_events["S1"] : 3 \in meetup_event_meetup_users[e]
       /\ InitRole \in member_roles[2] /\ InitRole \notin member_roles[1]

\* Those of the events whose stored time parses and is strictly after now,
\* and the earliest-starting of them
UpcomingOf(events) ==
    {e \in events : meetup_event[e].time.rfc3339 /\ meetup_event[e].time.time > now}
EarliestOf(events) ==
    {e \in UpcomingOf(events) :
       \A f \in UpcomingOf(events) : meetup_event[e].time.time <= meetup_event[f].time.time}

\* The series sync of thread p returns success from its last step, leaving the
\* channel with the topic of event e and the category of the series' type
TopicAndCategorySet(p) ==
    proc[p].pc = "sync_channel_topic_and_category" /\ proc'[p].result = "Ok" =>
      LET c == Unwrap(proc[p].channel_id)
          type == series_type[proc[p].series_id]
      IN  /\ proc'[p].pc = "series_done"
          /\ \E e \in proc[p].next_event :
                channel_topic'[c] = Some(<<"Next session: ", meetup_event[e].link>>)
          /\ type = Some("adventure") => channel_category'[c] = Some(ONE_SHOT_CATEGORY_ID)
          /\ type # Some("adventure") => channel_category'[c] = Some(CAMPAIGN_CATEGORY_ID)

\* Thread p goes on from the choice of the next event to the channel
PicksEvent(p) == proc[p].pc = "sync_event_series" /\ proc'[p].pc = "sync_channel"

LinkStep(h) ==
    \/ \E author \in DiscordUsers, discord_id \in DiscordUsers, meetup_id \in MeetupIds :
          link_meetup_organizer(h, author, discord_id, meetup_id)
    \/ link_check_m2d(h)
    \/ link_get_member_profile(h)
    \/ link_transaction(h)

\* No binding of the Store is overwritten or removed
BindingsKept ==
    /\ \A d \in DiscordUsers :
          discord_user_meetup_user[d] # None =>
             discord_user_meetup_user'[d] = discord_user_meetup_user[d]
    /\ \A m \in MeetupIds :
          meetup_user_discord_user[m] # None =>
             meetup_user_discord_user'[m] = meetup_user_discord_user[m]
    /\ meetup_users \subseteq meetup_users'
    /\ discord_users \subseteq discord_users'

\* C34: a link command writes nothing to the Store when its transaction finds
\* the Discord user or the Meetup id already bound, or when Meetup reports that
\* the profile does not exist (the command then ends before its transaction);
\* no step of a link command overwrites or removes an existing binding.
C34_LinkWritesNothingWhenBound ==
    [][\A h \in Handlers :
         /\ handler[h].pc = "link_transaction" =>
               handler[h].meetup_id \in MeetupProfiles
         /\ handler[h].pc = "link_transaction" /\ link_transaction(h)
            /\ (\/ discord_user_meetup_user[handler[h].user_id] # None
                \/ meetup_user_discord_user[handler[h].meetup_id] # None)
              => /\ UNCHANGED store_vars
                 /\ handler'[h].reply \in {"Could not assign meetup id (timing error)",
                                           "UNSPECIFIED_ERROR"}
         /\ handler[h].pc = "link_get_member_profile" /\ link_get_member_profile(h)
            /\ handler[h].meetup_id \notin MeetupProfiles
              => /\ UNCHANGED store_vars
                 /\ handler'[h].pc = "idle"
                 /\ handler'[h].reply \in {"this Meetup profile does not exist",
                                           "UNSPECIFIED_ERROR"}
         /\ handler'[h] # handler[h] /\ LinkStep(h) => BindingsKept
      ]_vars

\* One command found a key taken inside its transaction, another named a Meetup
\* id without a profile, and the binding written meanwhile is in place.
C34_Witness ==
    \E h1, h2 \in Handlers :
       /\ handler[h1].pc = "idle" /\ handler[h2].pc = "idle"
       /\ handler[h1].reply = "Could not assign meetup id (timing error)"
       /\ handler[h2].reply = "this Meetup profile does not exist"
       /\ \E d \in DiscordUsers : discord_user_meetup_user[d] # None

\* The Store keys an unlink has no business with
UnlinkFrame ==
    UNCHANGED <<event_vars, channel_vars, role_vars, admin_vars, meetup_users,
                discord_users>>

\* What unlink_meetup(user_id) does to the Store when a link of user_id is recorded
Unlinked(h, user_id, meetup_id) ==
    \/ /\ UNCHANGED store_vars
       /\ handler'[h].reply = "UNSPECIFIED_ERROR"
    \/ /\ handler'[h].reply = "MEETUP_UNLINK_SUCCESS"
       /\ meetup_user_discord_user[meetup_id] = Some(user_id)
       /\ discord_user_meetup_user' = [discord_user_meetup_user EXCEPT ![user_id] = None]
       /\ meetup_user_discord_user' = [meetup_user_discord_user EXCEPT ![meetup_id] = None]
       /\ \A m \in MeetupIds : meetup_user_discord_user'[m] # Some(user_id)
       /\ \A d \in DiscordUsers \ {user_id} :
             discord_user_meetup_user[d] # None =>
                /\ discord_user_meetup_user'[d] = discord_user_meetup_user[d]
                /\ meetup_user_discord_user'[Unwrap(discord_user_meetup_user[d])] = Some(d)
       /\ UnlinkFrame

\* C35: unlink_meetup(user_id) deletes both keys of user_id's link when one is
\* recorded (or fails on the Store and deletes nothing) and changes no Store key
\* when none is recorded; after a successful unlink no key of user_id is left,
\* so the next unlink of user_id changes nothing; the link of every other user
\* stays as it was, in both directions.
C35_UnlinkDeletesOwnLinkOnly ==
    [][\A h \in Handlers :
         handler[h].pc = "idle" /\ handler'[h].pc = "idle"
         /\ handler'[h].reply \in {"MEETUP_UNLINK_SUCCESS", "MEETUP_UNLINK_NOT_LINKED",
                                   "UNSPECIFIED_ERROR"} =>
            \A user_id \in DiscordUsers :
               (\E org \in BOOLEAN : message_unlink_meetup(h, user_id, user_id, org)) =>
                  LET linked == discord_user_meetup_user[user_id]
                  IN  IF linked = None
                      THEN UNCHANGED store_vars
                      ELSE Unlinked(h, user_id, Unwrap(linked))
      ]_vars

\* A user was unlinked, the next unlink of the same user found nothing to
\* delete, and the other user's link is still there in both directions.
C35_Witness ==
    \E h1, h2 \in Handlers, d \in DiscordUsers :
       /\ h1 # h2 /\ d # before_link.d
       /\ before_link.phase = "unlinked"
       /\ discord_user_meetup_user[before_link.d] = None
       /\ handler[h1].pc = "idle" /\ handler[h1].reply = "MEETUP_UNLINK_SUCCESS"
       /\ handler[h2].pc = "idle" /\ handler[h2].reply = "MEETUP_UNLINK_NOT_LINKED"
       /\ discord_user_meetup_user[d] # None
       /\ meetup_user_discord_user[Unwrap(discord_user_meetup_user[d])] = Some(d)

\* The overwrite that hides a channel from @everyone and the one that lets the
\* bot read it
EveryoneDenied == [kind |-> "Role", id |-> GUILD_ID, allow |-> {}, deny |-> {"READ_MESSAGES"}]
BotAllowed == [kind |-> "Member", id |-> bot_id, allow |-> {"READ_MESSAGES"}, deny |-> {}]

\* Channel c is private: @everyone is denied read by the one overwrite of that
\* target, the bot is allowed read by the one overwrite of that target
IsPrivate(c) ==
    /\ EveryoneDenied \in permission_overwrites[c]
    /\ BotAllowed \in permission_overwrites[c]
    /\ \A o \in permission_overwrites[c] :
          /\ o.kind = "Role" /\ o.id = GUILD_ID => o = EveryoneDenied
          /\ o.kind = "Member" /\ o.id = bot_id => o = BotAllowed

\* C36: every channel the sweep has created, and every channel bound before,
\* denies read to @everyone and allows read to the bot from its creation on, in
\* every state while it exists; no step of a sweep removes or changes either of
\* the two overwrites.
C36_ChannelsStayPrivate ==
    /\ [](\A c \in guild_channels : IsPrivate(c))
    /\ [][\A c \in Ids :
            /\ c \in guild_channels' \ guild_channels => IsPrivate(c)'
            /\ c \in guild_channels /\ IsPrivate(c) =>
                 /\ EveryoneDenied \in permission_overwrites'[c]
                 /\ BotAllowed \in permission_overwrites'[c]
         ]_vars

\* A channel the sweep created itself has been through sync_channel_permissions
\* and the series sync returned success.
C36_Witness ==
    \E p \in Sweepers, c \in guild_channels :
       /\ c >= FirstId
       /\ proc[p].pc = "series_done" /\ proc[p].result = "Ok"
       /\ proc[p].channel_id = Some(c)
       /\ Cardinality(permission_overwrites[c]) = 4
       /\ IsPrivate(c)

\* Channel c has exactly one of its two role bindings
HalfBound(c) == Cardinality(RoleKeysPresent(c)) = 1

\* C37 as stated: in every reachable state a channel has a user-role binding
\* if and only if it has a host-role binding.
C37_AsClaimed == \A c \in Ids : ~HalfBound(c)

\* C37: while sweeps and admin commands interleave, a channel has exactly one
\* of its two role bindings only while a series sync of that channel is in one
\* of its two role steps, or after such a sync has returned an error; once the
\* two role steps of a series sync have returned, the channel has both.  An
\* admin command that observes a channel with exactly one role binding ends
\* with an error and changes no Store key and no role membership.
C37_RolePairOutsideRoleSteps ==
    /\ [](\A p \in Sweepers :
             proc[p].pc = "sync_channel_permissions" =>
                RoleKeysPresent(Unwrap(proc[p].channel_id)) = BOOLEAN)
    /\ [](\A c \in Ids :
             HalfBound(c) =>
                \E p \in Sweepers :
                   /\ proc[p].channel_id = Some(c)
                   /\ \/ StepOf(proc[p]) \in {2, 3}
                      \/ proc[p].pc = "series_done" /\ proc[p].result = "Err")
    /\ [][\A h \in Admins :
            handler[h].pc = "idle" /\ handler'[h] # handler[h] =>
               \A author \in DiscordUsers, c \in guild_channels :
                  HalfBound(c) /\ AdminCommand(h, author, c) =>
                     /\ UNCHANGED <<store_vars, member_roles>>
                     /\ handler'[h].pc = "idle"
                     /\ handler'[h].reply = "UNSPECIFIED_ERROR"
         ]_vars

\* The host-role step of the sync of a channel created in the run has failed,
\* the channel is left with its user-role binding alone, and an admin command
\* has ended with an error.
C37_Witness ==
    \E p \in Sweepers, h \in Admins, c \in guild_channels :
       /\ c >= FirstId
       /\ proc[p].pc = "series_done" /\ proc[p].result = "Err"
       /\ proc[p].channel_id = Some(c)
       /\ RoleKeysPresent(c) = {FALSE}
       /\ handler[h].pc = "idle" /\ handler[h].reply = "UNSPECIFIED_ERROR"

\* C38: a remove(user) command that completes while a sweep of the channel's
\* series is in progress is honoured by that sweep: no step of the user-role
\* pass gives the channel's user role to a user whose removal has been
\* recorded in the channel's removed_users since the pass read that set, so
\* that the user is without the role once command and sweep have finished.
C38_AsClaimed ==
    [][\A p \in Sweepers, u \in DiscordUsers :
          /\ proc[p].pc = "assign_role" /\ ~proc[p].is_host_role
          /\ SweeperStep(p)
          /\ u \in removed_users[Unwrap(proc[p].channel_id)]
          /\ u \notin proc[p].removed_users_read
          => (PropagatedRole(p) \in member_roles'[u] => PropagatedRole(p) \in member_roles[u])
      ]_vars

\* The channel of series s is as a sweep that picked event e and whose every
\* call succeeded leaves it: the four overwrites, the topic of e, the category
\* of the series' type, the user role with every mapped RSVP and the host role
\* with every mapped host outside the suppression sets, the game-master role
\* with every mapped host.
SyncedFor(s, e) ==
    \E c \in event_series_discord_channel[s] :
       /\ c \in guild_channels
       /\ HasCanonicalOverwrites(c)
       /\ channel_topic[c] = Some(topic_of(e))
       /\ channel_category[c] = Some(category_of(series_type[s]))
       /\ \A r \in discord_channel_discord_role[FALSE][c] :
             \A u \in MappedUsers(FALSE, s) \ removed_users[c] : r \in member_roles[u]
       /\ \A r \in discord_channel_discord_role[TRUE][c] :
             \A u \in MappedUsers(TRUE, s) \ (removed_hosts[c] \cup removed_users[c]) :
                r \in member_roles[u]
       /\ \A u \in MappedUsers(TRUE, s) : GAME_MASTER_ID \in member_roles[u]

\* Thread p takes a step of the sweep that follows the first
SecondSweepStep(p) == proc[p].num_sweeps = MaxSweeps + 1 /\ SweeperStep(p)

\* The step creates nothing, changes no Store key, no overwrite, topic or
\* category, and no role membership
ChangesNothing == UNCHANGED <<store_vars, guild_vars, member_roles>>

\* The member events of series s that start first after time t
EarliestAfter(t, s) ==
    LET after == {e \in series_meetup_events[s] :
                    meetup_event[e].time.rfc3339 /\ meetup_event[e].time.time > t}
    IN  {e \in after :
           \A f \in after : meetup_event[e].time.time <= meetup_event[f].time.time}

RoleSideOf(c) ==
    <<discord_channel_discord_role[FALSE][c], discord_channel_discord_role[TRUE][c],
      {<<h, r>> \in BOOLEAN \X Ids : discord_role_discord_channel[h][r] = Some(c)},
      [h \in BOOLEAN |-> discord_roles[h] \cap discord_channel_discord_role[h][c]],
      removed_users[c], removed_hosts[c]>>

\* The stale channel still carries all that the earlier sync and the earlier
\* commands left on it
StaleRoleSideKept ==
    /\ discord_channel_discord_role[FALSE][InitChannel] = Some(InitRole)
    /\ discord_channel_discord_role[TRUE][InitChannel] = Some(InitHostRole)
    /\ discord_role_discord_channel[FALSE][InitRole] = Some(InitChannel)
    /\ discord_role_discord_channel[TRUE][InitHostRole] = Some(InitChannel)
    /\ InitRole \in discord_roles[FALSE] /\ InitHostRole \in discord_roles[TRUE]
    /\ removed_users[InitChannel] = {2}
    /\ removed_hosts[InitChannel] = {1}

\* C40: the repair of a stale channel binding writes the series' channel slot,
\* the stale channel's event_series reverse key and discord_channels and nothing
\* else: the stale channel's role keys, their reverse keys, their memberships
\* in discord_roles and its removed_users / removed_hosts sets are as before,
\* during the repair and for the rest of the sync. The channel bound in its
\* place has no role key and empty removal sets when it is bound, so both role
\* steps create a role for it: two roles created in the run, different from
\* each other and from the roles of the stale channel.
C40_RepairLeavesRoleSide ==
    /\ [][\A p \in Sweepers :
            /\ (proc[p].pc = "repair_channel" /\ SweeperStep(p) =>
                  \A stale \in proc[p].channel :
                      /\ UNCHANGED <<event_vars, orphaned_discord_channels, role_vars,
                                     link_vars, admin_vars, guild_vars, member_roles>>
                      /\ \A s \in Series \ {proc[p].series_id} :
                            event_series_discord_channel'[s] = event_series_discord_channel[s]
                      /\ \A c \in Ids \ {stale} :
                            /\ discord_channel_event_series'[c] = discord_channel_event_series[c]
                            /\ (c \in discord_channels') = (c \in discord_channels)
                      /\ RoleSideOf(stale)' = RoleSideOf(stale))
            /\ (proc[p].pc = "bind_channel" /\ SweeperStep(p)
                /\ event_series_discord_channel'[proc[p].series_id]
                     # event_series_discord_channel[proc[p].series_id] =>
                  \A new \in event_series_discord_channel'[proc[p].series_id] :
                      /\ new >= FirstId
                      /\ RoleKeysPresent(new)' = {}
                      /\ \A h \in BOOLEAN, r \in Ids :
                            discord_role_discord_channel'[h][r] # Some(new)
                      /\ removed_users'[new] = {} /\ removed_hosts'[new] = {})
            /\ (StaleChannel => RoleSideOf(InitChannel)' = RoleSideOf(InitChannel))]_vars
    /\ [](\A p \in Sweepers, c \in Ids :
            /\ StaleChannel
            /\ c >= FirstId
            /\ proc[p].pc = "sync_channel_permissions"
            /\ proc[p].channel_id = Some(c)
            => /\ StaleRoleSideKept
               /\ \E r, hr \in guild_roles :
                     /\ r >= FirstId /\ hr >= FirstId /\ r # hr
                     /\ proc[p].channel_role_id = Some(r)
                     /\ proc[p].channel_host_role_id = Some(hr)
                     /\ discord_channel_discord_role[FALSE][c] = Some(r)
                     /\ discord_channel_discord_role[TRUE][c] = Some(hr)
                     /\ r \in discord_roles[FALSE] /\ hr \in discord_roles[TRUE])

\* The sync found the series bound to a channel that no longer exists, has
\* repaired the binding and bound a new channel with two new roles; the stale
\* channel still has its roles and its removal sets.
C40_Witness ==
    \E p \in Sweepers, c \in guild_channels :
       /\ StaleChannel
       /\ c >= FirstId
       /\ proc[p].pc = "sync_channel_permissions"
       /\ proc[p].channel_id = Some(c)
       /\ Rebound("S1", c)
       /\ StaleRoleSideKept
       /\ Cardinality(RoleKeysPresent(c)) = 2
       /\ removed_users[c] = {} /\ removed_hosts[c] = {}

====
